---- MODULE Spec2Model ----
(***************************************************************************)
(* A model of parts of the iced toolkit:                                   *)
(*   - the damage-tracked software compositor                              *)
(*     (tiny_skia/src/window/compositor.rs),                               *)
(*   - event dispatch of the SelectionField widget                         *)
(*     (examples/sctk_input_method/src/selection_field/widget.rs),         *)
(*   - event dispatch of the Checkbox widget (widget/src/checkbox.rs),     *)
(*   - the layout of the SelectionField widget,                            *)
(*   - the persistent Tree of a view of both widgets and its diff,         *)
(*   - event dispatch to two overlapping sibling widgets,                  *)
(*   - the layout of a row of fixed and fill children,                     *)
(*   - the application of the Checkbox example,                            *)
(*   - the input-method callbacks of the sctk backend                      *)
(*     (sctk/src/handlers/input_method/mod.rs),                            *)
(*   - the virtual keyboard of the sctk backend                            *)
(*     (sctk/src/handlers/virtual_keyboard.rs).                            *)
(* Each part has its own specification (SpecCompositor, SpecDamage,        *)
(* SpecOverlay, SpecRects, SpecSizes and SpecScreenshot; SpecField and     *)
(* SpecPresses; SpecCheckbox; SpecLayout; SpecTree; SpecSiblings; SpecRow; *)
(* SpecApp; SpecInputMethod; SpecVirtualKeyboard); the variables of the    *)
(* other parts stay at their initial values.                               *)
(***************************************************************************)
EXTENDS Integers, Sequences, FiniteSets, TLC

VARIABLES
    surface,    \* compositor::Surface: primitives, background_color, buffer, clip_mask
    frame,      \* what the last compositor call received, did and returned
    state,      \* SelectionField's persistent State: is_hovered, is_pressed
    dispatch,   \* the last SelectionField::on_event call: element, inputs, status, shell
    armed,      \* whether the calls before the last one were a press that arms the
                \* field and, after it, cursor moves only
    left,       \* whether the calls before the last one were such a press, then a
                \* CursorLeft or FingerLost (with the child's status for it) and,
                \* after it, cursor moves only
    recent,     \* the last press, release, CursorLeft or FingerLost among the calls
                \* before the last one: "press_over" or "press_outside" (a press
                \* with the cursor over the bounds or not), "release", "lost", or
                \* "none"; "off" in a behaviour that does not keep track of it
    checkbox,   \* a Checkbox instance and the last Checkbox::on_event call on it
    lay,        \* a SelectionField being built and the last SelectionField::layout
                \* call on it: limits, the content's size, the node returned
    ui,         \* the view's root Element, the persistent Tree diffed against it,
                \* the layout of the view and the last call on them
    stack,      \* a SelectionField around two overlapping sibling Checkboxes and
                \* the last dispatch to them
    row,        \* a row of children, its spacing and the last layout of it
    app,        \* the State of the application of the Checkbox example and the
                \* last event dispatched to its view
    im,         \* SctkState::sctk_events as the input-method callbacks fill it,
                \* the last callback and the last event taken from the queue for
                \* the application
    kbd         \* SctkState::seats with the key requests each seat's virtual
                \* keyboard was sent, and the last call on them

vars ==
    <<surface, frame, state, dispatch, armed, left, recent, checkbox, lay, ui, stack, row, app, im,
      kbd>>

compositorVars == <<surface, frame>>
fieldVars == <<state, dispatch, armed, left, recent>>
checkboxVars == <<checkbox>>
layoutVars == <<lay>>
treeVars == <<ui>>
siblingVars == <<stack>>
rowVars == <<row>>
appVars == <<app>>
inputMethodVars == <<im>>
virtualKeyboardVars == <<kbd>>

\* The variables an action of one part leaves alone: those of the other parts.
notCompositor == <<fieldVars, checkboxVars, layoutVars, treeVars, siblingVars, rowVars, appVars,
    inputMethodVars, virtualKeyboardVars>>
notField == <<compositorVars, checkboxVars, layoutVars, treeVars, siblingVars, rowVars, appVars,
    inputMethodVars, virtualKeyboardVars>>
notCheckbox == <<compositorVars, fieldVars, layoutVars, treeVars, siblingVars, rowVars, appVars,
    inputMethodVars, virtualKeyboardVars>>
notLayout == <<compositorVars, fieldVars, checkboxVars, treeVars, siblingVars, rowVars, appVars,
    inputMethodVars, virtualKeyboardVars>>
notTree == <<compositorVars, fieldVars, checkboxVars, layoutVars, siblingVars, rowVars, appVars,
    inputMethodVars, virtualKeyboardVars>>
notSiblings == <<compositorVars, fieldVars, checkboxVars, layoutVars, treeVars, rowVars, appVars,
    inputMethodVars, virtualKeyboardVars>>
notRow == <<compositorVars, fieldVars, checkboxVars, layoutVars, treeVars, siblingVars, appVars,
    inputMethodVars, virtualKeyboardVars>>
notApp == <<compositorVars, fieldVars, checkboxVars, layoutVars, treeVars, siblingVars, rowVars,
    inputMethodVars, virtualKeyboardVars>>
notInputMethod == <<compositorVars, fieldVars, checkboxVars, layoutVars, treeVars, siblingVars,
    rowVars, appVars, virtualKeyboardVars>>
notVirtualKeyboard == <<compositorVars, fieldVars, checkboxVars, layoutVars, treeVars, siblingVars,
    rowVars, appVars, inputMethodVars>>

----------------------------------------------------------------------------
(* Bounds of the model.                                                    *)

\* Longest primitive list handed to present.
MaxPrims == 1
\* Largest finite length of a layout: a side of a Limits, a Length::Fixed
\* amount, a side of the content's size.
MaxLen == 2
\* Largest padding of a side.
MaxPad == 1
\* Deepest nesting of SelectionFields in a view.
MaxDepth == 1
\* Cursor positions are the points <<x, y>> with x and y in 0..GridMax.
GridMax == 2
\* Most events that wait in sctk_events before the queue is drained.
MaxQueue == 2
\* Most seats of SctkState::seats.
MaxSeats == 2
\* Most key requests sent to the virtual keyboard of a seat.
MaxRequests == 2

----------------------------------------------------------------------------
(* Values.                                                                 *)

\* Option<T>: None, or Some(x).
None == <<>>
Some(x) == <<x>>
Unwrap(o) == o[1]

Min(a, b) == IF a <= b THEN a ELSE b
Max(a, b) == IF a >= b THEN a ELSE b

Rect(x, y, w, h) == [x |-> x, y |-> y, width |-> w, height |-> h]

\* Rectangle::with_size: a rectangle at the origin with the given size.
WithSize(size) == Rect(0, 0, size[1], size[2])

\* Color::BLACK, the background colour of a new surface, and one other colour.
BLACK == "black"
WHITE == "white"
Colors == {BLACK, WHITE}

\* A primitive: a drawing instruction with explicit bounds, comparable by value.
\* A quad, the same quad moved by (1, 0), and the quad in another colour.
Primitives ==
    {[bounds |-> Rect(0, 0, 1, 1), content |-> BLACK],
     [bounds |-> Rect(1, 0, 1, 1), content |-> BLACK],
     [bounds |-> Rect(0, 0, 1, 1), content |-> WHITE]}

RECURSIVE SeqsUpTo(_, _)
SeqsUpTo(S, n) ==
    IF n = 0 THEN {<<>>}
    ELSE LET shorter == SeqsUpTo(S, n - 1)
         IN  shorter \cup {Append(s, e) : s \in {t \in shorter : Len(t) = n - 1}, e \in S}

PrimitiveLists == SeqsUpTo(Primitives, MaxPrims)

\* Physical sizes a window can be given; a zero width is among them.
PhysicalSizes == {<<0, 2>>, <<2, 2>>, <<4, 2>>}

\* A Viewport: its physical size in pixels and its scale factor.
Viewports ==
    {[physical |-> <<0, 2>>, scale |-> 1],
     [physical |-> <<2, 2>>, scale |-> 1],
     [physical |-> <<4, 2>>, scale |-> 2]}

\* Viewport::logical_size: the physical size divided by the scale factor.
LogicalSize(viewport) ==
    <<viewport.physical[1] \div viewport.scale, viewport.physical[2] \div viewport.scale>>

\* What the presentation backend does with one frame.
BackendOutcomes == {"ok", "resize_fails", "buffer_mut_fails", "present_fails"}

----------------------------------------------------------------------------
(* The compositor.                                                         *)

\* tiny_skia::Mask::new: no mask of zero width or height.
MaskNew(width, height) == width > 0 /\ height > 0

\* tiny_skia::PixmapMut::from_bytes on a buffer of `len` 32-bit pixels: no
\* pixmap of zero width or height, nor one larger than the buffer.
PixmapFromBytes(len, width, height) ==
    width > 0 /\ height > 0 /\ len * 4 >= width * height * 4

\* damage::list: the two lists are compared pairwise; a pair that differs by
\* value contributes the bounds of both primitives, and the primitives the
\* longer list has beyond the shorter one contribute theirs.
RECURSIVE DamageList(_, _)
DamageList(previous, current) ==
    IF previous = <<>> /\ current = <<>> THEN <<>>
    ELSE IF previous = <<>> THEN <<Head(current).bounds>> \o DamageList(<<>>, Tail(current))
    ELSE IF current = <<>> THEN <<Head(previous).bounds>> \o DamageList(Tail(previous), <<>>)
    ELSE (IF Head(previous) = Head(current) THEN <<>>
          ELSE IF Head(previous).bounds = Head(current).bounds
               THEN <<Head(current).bounds>>
               ELSE <<Head(previous).bounds, Head(current).bounds>>)
         \o DamageList(Tail(previous), Tail(current))

\* ComputeDamage without the cached frame: every frame is a full repaint.
ComputeDamage_NoCache(s, primitives, viewport, background_color) ==
    <<WithSize(LogicalSize(viewport))>>

\* ComputeDamage without the comparison of the background colours.
ComputeDamage_NoBackground(s, primitives, viewport, background_color) ==
    IF s.primitives # None
    THEN DamageList(Unwrap(s.primitives), primitives)
    ELSE <<WithSize(LogicalSize(viewport))>>

\* The damage present computes: the difference with the cached frame when there
\* is one with the same background colour, the whole viewport otherwise.
ComputeDamage(s, primitives, viewport, background_color) ==
    IF s.primitives # None /\ s.background_color = background_color
    THEN DamageList(Unwrap(s.primitives), primitives)
    ELSE <<WithSize(LogicalSize(viewport))>>

\* The indexes at which `current` has the primitive of `previous` with its
\* bounds moved, every other primitive being the same in both lists.
MovedAt(previous, current) ==
    {i \in 1..Len(current) :
        /\ Len(previous) = Len(current)
        /\ previous[i].content = current[i].content
        /\ previous[i].bounds.width = current[i].bounds.width
        /\ previous[i].bounds.height = current[i].bounds.height
        /\ previous[i].bounds # current[i].bounds
        /\ \A j \in 1..Len(current) : j # i => previous[j] = current[j]}

\* The overlay lines a frame can come with: none, or one line of text.
Overlays == {<<>>, <<"fps">>}

\* u32 arithmetic in 16-bit halves: x = Hi(x) * 2^16 + Lo(x).
Hi(x) == x \div 65536
Lo(x) == x % 65536

\* The middle term of the product of two u32, with the carry of the low one.
MulMiddle(a, b) == Hi(a) * Lo(b) + Lo(a) * Hi(b) + Hi(Lo(a) * Lo(b))

\* a * b does not fit in a u32.
MulOverflows(a, b) == Hi(a) * Hi(b) > 0 \/ Hi(MulMiddle(a, b)) > 0

\* a * b in u32 where the build does not check for overflow: the product
\* modulo 2^32.
WrappingMul(a, b) == Lo(MulMiddle(a, b)) * 65536 + Lo(Lo(a) * Lo(b))

\* `x as u32` for a coordinate: negative values become 0.
AsU32(x) == IF x < 0 THEN 0 ELSE x

\* Rectangle::union: the smallest rectangle that holds both.
Union(a, b) ==
    LET x == Min(a.x, b.x)
        y == Min(a.y, b.y)
    IN  Rect(x, y, Max(a.x + a.width, b.x + b.width) - x,
             Max(a.y + a.height, b.y + b.height) - y)

\* A region scaled by the scale factor and clamped to the physical bounds.
Clamp(region, scale_factor, bounds) ==
    LET x == Min(Max(region.x * scale_factor, 0), bounds[1])
        y == Min(Max(region.y * scale_factor, 0), bounds[2])
    IN  Rect(x, y,
             Max(Min((region.x + region.width) * scale_factor, bounds[1]) - x, 0),
             Max(Min((region.y + region.height) * scale_factor, bounds[2]) - y, 0))

RECURSIVE UnionAll(_, _)
UnionAll(current, regions) ==
    IF regions = <<>> THEN current
    ELSE UnionAll(Union(current, Head(regions)), Tail(regions))

\* damage::group: the regions are scaled and clamped to the physical size,
\* and regions within the merge threshold of each other become one bounding
\* rectangle; every two regions of the model are within the threshold.
Group(damage, scale_factor, bounds) ==
    IF damage = <<>> THEN <<>>
    ELSE LET scaled == [i \in 1..Len(damage) |-> Clamp(damage[i], scale_factor, bounds)]
         IN  <<UnionAll(Head(scaled), Tail(scaled))>>

\* SoftbufferRects converting every region, empty or not.
SoftbufferRects_KeepsEmpty(damage) ==
    [i \in 1..Len(damage) |->
        [x |-> AsU32(damage[i].x), y |-> AsU32(damage[i].y),
         width |-> AsU32(damage[i].width), height |-> AsU32(damage[i].height)]]

\* The softbuffer::Rect list present makes of the grouped damage: a region
\* whose width or height is 0 as a u32 gives no NonZeroU32 and is dropped.
RECURSIVE SoftbufferRects(_)
SoftbufferRects(damage) ==
    IF damage = <<>> THEN <<>>
    ELSE LET r == Head(damage)
         IN  (IF AsU32(r.width) # 0 /\ AsU32(r.height) # 0
              THEN <<[x |-> AsU32(r.x), y |-> AsU32(r.y),
                      width |-> AsU32(r.width), height |-> AsU32(r.height)]>>
              ELSE <<>>)
             \o SoftbufferRects(Tail(damage))

\* The record of one compositor call.  `after` is the call made before it and
\* `repeats` whether this call has the arguments of that one; same_primitives
\* and same_background compare the arguments with what the surface had cached
\* when the call was made, and overlay_changed the overlay with that of the
\* present call before it.  In a behaviour that tracks the screen, `shown` is
\* the last frame that present_with_damage took, this one included, and `moved`
\* holds the old and the new bounds of the primitive that moved since the frame
\* shown before this call, if exactly one did and the background colour is the
\* same.
Frame(op, primitives, viewport, background_color, overlay, damage, drew, resized, copied, rects, result) ==
    [op |-> op,
     after |-> [op |-> frame.op, result |-> frame.result],
     repeats |-> /\ primitives # None
                 /\ frame.primitives = primitives
                 /\ frame.viewport = viewport
                 /\ frame.background_color = background_color,
     same_primitives |-> primitives # None /\ surface.primitives = primitives,
     same_background |-> surface.background_color = background_color,
     overlay_changed |-> op = "present" /\ frame.op = "present" /\ frame.overlay # overlay,
     tracked |-> frame.tracked,
     moved |-> IF /\ primitives # None /\ frame.shown # None
                  /\ Unwrap(frame.shown).background_color = background_color
               THEN {<<Unwrap(frame.shown).primitives[i].bounds, Unwrap(primitives)[i].bounds>> :
                        i \in MovedAt(Unwrap(frame.shown).primitives, Unwrap(primitives))}
               ELSE {},
     shown |-> IF frame.tracked /\ rects # None /\ result = "Ok"
               THEN Some([primitives |-> Unwrap(primitives),
                          background_color |-> background_color])
               ELSE frame.shown,
     primitives |-> primitives, viewport |-> viewport,   \* Some(the argument), or None
     background_color |-> background_color,
     overlay |-> overlay,
     damage |-> damage,     \* Some(the damage list computed), None when none was
     drew |-> drew,         \* backend.draw was called
     resized |-> resized,   \* the window surface was resized
     copied |-> copied,     \* the buffer was copied to the window's buffer
     offered |-> rects # None,   \* present_with_damage was called
     rects |-> rects,       \* Some(the list present_with_damage was given), or None
     before |-> None,       \* of a screenshot: Some(the surface it was called with)
     offscreen_buffer |-> None,   \* of a screenshot: Some(the pixels drawn)
     bytes |-> None,        \* of a screenshot: Some(the bytes returned)
     result |-> result]     \* "Ok", "InvalidDimensions", "Resize", "Present" or "panic"

\* The record of create_surface, the call that makes the surface.
FrameNew ==
    [op |-> "create_surface", after |-> [op |-> "new", result |-> "Ok"],
     repeats |-> FALSE, same_primitives |-> FALSE, same_background |-> TRUE,
     overlay_changed |-> FALSE,
     tracked |-> FALSE, moved |-> {}, shown |-> None,
     primitives |-> None, viewport |-> None, background_color |-> BLACK,
     overlay |-> <<>>,
     damage |-> None, drew |-> FALSE, resized |-> FALSE, copied |-> FALSE,
     offered |-> FALSE, rects |-> None,
     before |-> None, offscreen_buffer |-> None, bytes |-> None,
     result |-> "Ok"]

\* Compositor::create_surface(width, height); None when it panics.  The
\* buffer has width as usize * height as usize pixels.
create_surface(width, height) ==
    IF MaskNew(width, height)
    THEN Some([buffer |-> width * height, clip_mask |-> <<width, height>>,
               primitives |-> None, background_color |-> BLACK])
    ELSE None

\* The surface is created for a window of 2 x 2 pixels.
InitCompositor ==
    /\ surface = Unwrap(create_surface(2, 2))
    /\ frame = FrameNew

Alive == frame.result # "panic"

\* The record of a configure_surface call.
Configured(result) ==
    Frame("configure_surface", None, None, BLACK, <<>>, None, FALSE, FALSE, FALSE, None,
          result)

\* configure_surface that keeps the cached primitives.
configure_surface_KeepsPrimitives(width, height) ==
    /\ Alive
    /\ \E checked \in (IF MulOverflows(width, height) THEN BOOLEAN ELSE {FALSE}) :
          IF checked
          THEN /\ frame' = Configured("panic")
               /\ UNCHANGED surface
          ELSE IF MaskNew(width, height)
          THEN /\ surface' = [surface EXCEPT !.buffer = WrappingMul(width, height),
                                             !.clip_mask = <<width, height>>]
               /\ frame' = Configured("Ok")
          ELSE /\ surface' = [surface EXCEPT !.buffer = WrappingMul(width, height)]
               /\ frame' = Configured("panic")
    /\ UNCHANGED notCompositor

\* Compositor::configure_surface(surface, width, height).  The buffer is
\* resized to (width * height) as usize, a product of two u32: where it
\* overflows, a build that checks for overflow panics and one that does not
\* wraps.
configure_surface(width, height) ==
    /\ Alive
    /\ \E checked \in (IF MulOverflows(width, height) THEN BOOLEAN ELSE {FALSE}) :
          IF checked
          THEN /\ frame' = Configured("panic")
               /\ UNCHANGED surface
          ELSE IF MaskNew(width, height)
          THEN /\ surface' = [surface EXCEPT !.buffer = WrappingMul(width, height),
                                             !.clip_mask = <<width, height>>,
                                             !.primitives = None]
               /\ frame' = Configured("Ok")
          ELSE /\ surface' = [surface EXCEPT !.buffer = WrappingMul(width, height)]
               /\ frame' = Configured("panic")
    /\ UNCHANGED notCompositor

\* What present does after it has drawn: resize the window surface, copy the
\* buffer to the window's and present it with the damage as `rects`.  Gives
\* <<result, resized, copied, the list present_with_damage got or None>>.
Deliver(s, physical_size, rects, backend) ==
    IF physical_size[1] = 0 \/ physical_size[2] = 0
    THEN <<"InvalidDimensions", FALSE, FALSE, None>>
    ELSE IF backend = "resize_fails" THEN <<"Resize", FALSE, FALSE, None>>
    ELSE IF backend = "buffer_mut_fails" THEN <<"Ok", TRUE, FALSE, None>>
    ELSE IF s.buffer # physical_size[1] * physical_size[2]
         THEN <<"panic", TRUE, FALSE, None>>      \* copy_from_slice: lengths differ
    ELSE IF backend = "present_fails" THEN <<"Present", TRUE, TRUE, Some(rects)>>
    ELSE <<"Ok", TRUE, TRUE, Some(rects)>>

\* present from the pixel map on, for the damage it computed.
PresentWith(damage, primitives, viewport, background_color, overlay) ==
    /\ Alive
    /\ LET physical_size == viewport.physical
           grouped == Group(damage, viewport.scale, physical_size)
       IN  IF ~PixmapFromBytes(surface.buffer, physical_size[1], physical_size[2])
           THEN /\ frame' = Frame("present", Some(primitives), Some(viewport), background_color,
                                  overlay, None, FALSE, FALSE, FALSE, None, "panic")
                /\ UNCHANGED surface
           ELSE IF damage = <<>>
           THEN /\ frame' = Frame("present", Some(primitives), Some(viewport), background_color,
                                  overlay, Some(damage), FALSE, FALSE, FALSE, None, "Ok")
                /\ UNCHANGED surface
           ELSE /\ surface' = [surface EXCEPT !.primitives = Some(primitives),
                                              !.background_color = background_color]
                /\ \E backend \in BackendOutcomes :
                      LET out == Deliver(surface, physical_size, SoftbufferRects(grouped),
                                         backend)
                      IN  frame' = Frame("present", Some(primitives), Some(viewport),
                                         background_color, overlay, Some(damage), TRUE,
                                         out[2], out[3], out[4], out[1])
    /\ UNCHANGED notCompositor

\* present taking a non-empty overlay for damage to the whole viewport.
present_OverlayDamages(primitives, viewport, background_color, overlay) ==
    PresentWith(IF overlay # <<>>
                THEN <<WithSize(LogicalSize(viewport))>>
                ELSE ComputeDamage(surface, primitives, viewport, background_color),
                primitives, viewport, background_color, overlay)

\* present(backend, surface, primitives, viewport, background_color, overlay).
present(primitives, viewport, background_color, overlay) ==
    PresentWith(ComputeDamage(surface, primitives, viewport, background_color),
                primitives, viewport, background_color, overlay)

\* A u32 pixel 0xAARRGGBB, as its upper and its lower 16 bits.
Pixel(a, r, g, b) == [hi |-> a * 256 + r, lo |-> g * 256 + b]

A_MASK == [hi |-> 65280, lo |-> 0]
R_MASK == [hi |-> 255, lo |-> 0]
G_MASK == [hi |-> 0, lo |-> 65280]
B_MASK == [hi |-> 0, lo |-> 255]

\* a & b on the lower n bits.
RECURSIVE BitAnd(_, _, _)
BitAnd(a, b, n) ==
    IF n = 0 THEN 0
    ELSE (a % 2) * (b % 2) + 2 * BitAnd(a \div 2, b \div 2, n - 1)

\* mask & pixel, in u32.
AndU32(mask, pixel) ==
    [hi |-> BitAnd(mask.hi, pixel.hi, 16), lo |-> BitAnd(mask.lo, pixel.lo, 16)]

\* pixel >> n, in u32, for n < 32.
ShrU32(pixel, n) ==
    IF n >= 16
    THEN [hi |-> 0, lo |-> pixel.hi \div 2^(n - 16)]
    ELSE [hi |-> pixel.hi \div 2^n,
          lo |-> (pixel.hi % 2^n) * 2^(16 - n) + pixel.lo \div 2^n]

\* `x as u8`: the lowest 8 bits.
AsU8(x) == x.lo % 256

\* PixelBytes emitting the channels in the order of the pixel: a, r, g, b.
PixelBytes_Argb(pixel) ==
    <<AsU8(ShrU32(AndU32(A_MASK, pixel), 24)), AsU8(ShrU32(AndU32(R_MASK, pixel), 16)),
      AsU8(ShrU32(AndU32(G_MASK, pixel), 8)), AsU8(AndU32(B_MASK, pixel))>>

\* The closure of the fold in screenshot: the four bytes one pixel adds.
PixelBytes(pixel) ==
    LET a == AsU8(ShrU32(AndU32(A_MASK, pixel), 24))
        r == AsU8(ShrU32(AndU32(R_MASK, pixel), 16))
        g == AsU8(ShrU32(AndU32(G_MASK, pixel), 8))
        b == AsU8(AndU32(B_MASK, pixel))
    IN  <<r, g, b, a>>

\* What backend.draw can leave in a buffer of `len` pixels: four pixels with
\* different channels, opaque ones among them, repeated from any of them on.
DrawnPixels == <<Pixel(255, 1, 2, 3), Pixel(0, 0, 0, 0), Pixel(128, 255, 0, 7), Pixel(1, 2, 3, 255)>>
Drawn(len) == {[i \in 1..len |-> DrawnPixels[((i + k) % 4) + 1]] : k \in 0..3}

\* The bytes the closure adds for each pixel that can be drawn.
FoldStep == [i \in 1..Len(DrawnPixels) |-> PixelBytes(DrawnPixels[i])]

\* offscreen_buffer.iter().fold(...): the bytes of every pixel, in order.
RECURSIVE ToBytes(_)
ToBytes(offscreen_buffer) ==
    IF offscreen_buffer = <<>> THEN <<>>
    ELSE FoldStep[CHOOSE i \in 1..Len(DrawnPixels) : DrawnPixels[i] = Head(offscreen_buffer)]
         \o ToBytes(Tail(offscreen_buffer))

\* The records of the outcomes of a screenshot call.
ScreenshotFrames(primitives, viewport, background_color, overlay) ==
    LET size == viewport.physical
        len == size[1] * size[2]
    IN  IF ~PixmapFromBytes(len, size[1], size[2])
        THEN {[Frame("screenshot", Some(primitives), Some(viewport), background_color,
                     overlay, None, FALSE, FALSE, FALSE, None, "panic")
                  EXCEPT !.before = Some(surface)]}
        ELSE {[Frame("screenshot", Some(primitives), Some(viewport), background_color,
                     overlay, Some(<<WithSize(size)>>), TRUE, FALSE, FALSE, None, "Ok")
                  EXCEPT !.before = Some(surface),
                         !.offscreen_buffer = Some(offscreen_buffer),
                         !.bytes = Some(ToBytes(offscreen_buffer))] :
                 offscreen_buffer \in Drawn(len)}

\* screenshot caching the frame it draws, as present does.
screenshot_CachesFrame(primitives, viewport, background_color, overlay) ==
    /\ Alive
    /\ frame' \in ScreenshotFrames(primitives, viewport, background_color, overlay)
    /\ surface' = [surface EXCEPT !.primitives = Some(primitives),
                                  !.background_color = background_color]
    /\ UNCHANGED notCompositor

\* screenshot(surface, backend, primitives, viewport, background_color, overlay)
screenshot(primitives, viewport, background_color, overlay) ==
    /\ Alive
    /\ frame' \in ScreenshotFrames(primitives, viewport, background_color, overlay)
    /\ UNCHANGED surface
    /\ UNCHANGED notCompositor

\* The compositor with frames that have no overlay.
NextCompositor ==
    \/ \E size \in PhysicalSizes : configure_surface(size[1], size[2])
    \/ \E primitives \in PrimitiveLists, viewport \in Viewports,
          background_color \in Colors :
            present(primitives, viewport, background_color, <<>>)

\* A quad.
Quad == [bounds |-> Rect(0, 0, 1, 1), content |-> BLACK]

\* The compositor with frames of quads that have an overlay or none.
NextOverlay ==
    \/ \E size \in PhysicalSizes : configure_surface(size[1], size[2])
    \/ \E primitives \in SeqsUpTo({Quad}, MaxPrims), viewport \in Viewports,
          background_color \in Colors, overlay \in Overlays :
            present(primitives, viewport, background_color, overlay)

\* A quad without width, as an empty run of text has.
EmptyQuad == [bounds |-> Rect(1, 0, 0, 1), content |-> BLACK]

\* The compositor with frames of a quad and of a quad without width.
NextRects ==
    \/ \E size \in PhysicalSizes : configure_surface(size[1], size[2])
    \/ \E primitives \in SeqsUpTo({Quad, EmptyQuad}, MaxPrims),
          viewport \in Viewports, background_color \in Colors :
            present(primitives, viewport, background_color, <<>>)

\* The compositor with frames of quads and screenshots of them.
NextScreenshot ==
    \/ \E size \in PhysicalSizes : configure_surface(size[1], size[2])
    \/ \E primitives \in SeqsUpTo({Quad}, MaxPrims), viewport \in Viewports,
          background_color \in Colors :
            present(primitives, viewport, background_color, <<>>)
    \/ \E primitives \in SeqsUpTo({Quad}, MaxPrims), viewport \in Viewports,
          background_color \in Colors, overlay \in Overlays :
            screenshot(primitives, viewport, background_color, overlay)

\* The compositor with windows of 65536 x 65536 pixels too.
NextSizes ==
    \/ \E size \in PhysicalSizes \cup {<<65536, 65536>>} :
          configure_surface(size[1], size[2])
    \/ \E primitives \in PrimitiveLists, viewport \in Viewports,
          background_color \in Colors :
            present(primitives, viewport, background_color, <<>>)

----------------------------------------------------------------------------
(* Events, the cursor and hit-testing.                                     *)

\* The kinds of Event the widgets tell apart, and some they do not.
Events ==
    {"CursorMoved", "CursorLeft", "LeftPressed", "LeftReleased", "RightPressed",
     "FingerPressed", "FingerLifted", "FingerLost", "KeyPressed", "WindowResized",
     "PlatformSpecific"}

\* No event dispatched yet.
NoEvent == "None"

PressEvents == {"LeftPressed", "FingerPressed"}
ReleaseEvents == {"LeftReleased", "FingerLifted"}
LostEvents == {"CursorLeft", "FingerLost"}

\* mouse::Cursor: Unavailable, or Available at a point.
Unavailable == <<>>
Available(point) == <<point>>
Cursors == {Unavailable} \cup {Available(p) : p \in (0..GridMax) \X (0..GridMax)}

\* Rectangle::contains: inclusive-exclusive containment.
Contains(bounds, point) ==
    /\ bounds.x <= point[1] /\ point[1] < bounds.x + bounds.width
    /\ bounds.y <= point[2] /\ point[2] < bounds.y + bounds.height

\* Cursor::is_over (and Cursor::position_in(..).is_some()).
IsOver(cursor, bounds) == cursor # Unavailable /\ Contains(bounds, cursor[1])

\* layout.bounds() of the widget an event is dispatched to.
LayoutBounds == Rect(1, 1, 1, 1)

Captured == "Captured"
Ignored == "Ignored"

----------------------------------------------------------------------------
(* SelectionField.                                                         *)

\* State::new(): State::default().
StateNew == [is_hovered |-> FALSE, is_pressed |-> FALSE]

\* The SelectionField elements a rebuild can produce: on_press and on_select
\* are each Some (TRUE) or None (FALSE).
Fields == [on_press : BOOLEAN, on_select : BOOLEAN]

\* What the content child's on_event publishes with the status it returns.
ChildShell(child) == IF child = Captured THEN <<"child">> ELSE <<>>

\* SelectionField::on_event from the downcast of its State on: what the
\* field does with an event its content child ignored.
OwnEvent(self, st, event, cursor, child) ==
    IF event = "CursorMoved"
    THEN IF IsOver(cursor, LayoutBounds)
         THEN [state |-> [st EXCEPT !.is_hovered = TRUE], status |-> Captured,
               shell |-> ChildShell(child)
                         \o (IF self.on_select THEN <<"on_select">> ELSE <<>>)]
         ELSE [state |-> st, status |-> Ignored, shell |-> ChildShell(child)]
    ELSE IF event \in PressEvents
    THEN IF self.on_press /\ IsOver(cursor, LayoutBounds)
         THEN [state |-> [st EXCEPT !.is_pressed = TRUE], status |-> Captured,
               shell |-> ChildShell(child)]
         ELSE [state |-> st, status |-> Ignored, shell |-> ChildShell(child)]
    ELSE IF event \in ReleaseEvents
    THEN IF self.on_press /\ st.is_pressed
         THEN [state |-> [st EXCEPT !.is_pressed = FALSE], status |-> Captured,
               shell |-> ChildShell(child)
                         \o (IF IsOver(cursor, LayoutBounds) THEN <<"on_press">> ELSE <<>>)]
         ELSE [state |-> st, status |-> Ignored, shell |-> ChildShell(child)]
    ELSE IF event \in LostEvents
    THEN [state |-> [st EXCEPT !.is_hovered = FALSE, !.is_pressed = FALSE],
          status |-> Ignored, shell |-> ChildShell(child)]
    ELSE [state |-> st, status |-> Ignored, shell |-> ChildShell(child)]

\* OnEvent publishing on_press on every release that ends a press, wherever
\* the cursor is.
OnEvent_ReleaseAnywhere(self, st, event, cursor, child) ==
    IF child # Captured /\ event \in ReleaseEvents /\ self.on_press /\ st.is_pressed
    THEN [state |-> [st EXCEPT !.is_pressed = FALSE], status |-> Captured,
          shell |-> ChildShell(child) \o <<"on_press">>]
    ELSE IF child = Captured
    THEN [state |-> st, status |-> Captured, shell |-> ChildShell(child)]
    ELSE OwnEvent(self, st, event, cursor, child)

\* OnEvent handling the event itself before it looks at the child's status.
OnEvent_SelfFirst(self, st, event, cursor, child) ==
    LET own == OwnEvent(self, st, event, cursor, child)
    IN  IF child = Captured THEN [own EXCEPT !.status = Captured] ELSE own

\* OnEvent capturing a press over the bounds with on_press set or not.
OnEvent_PressUnguarded(self, st, event, cursor, child) ==
    IF child # Captured /\ event \in PressEvents /\ IsOver(cursor, LayoutBounds)
    THEN [state |-> [st EXCEPT !.is_pressed = TRUE], status |-> Captured,
          shell |-> ChildShell(child)]
    ELSE IF child = Captured
    THEN [state |-> st, status |-> Captured, shell |-> ChildShell(child)]
    ELSE OwnEvent(self, st, event, cursor, child)

\* OnEvent capturing a press with on_press set wherever the cursor is.
OnEvent_PressAnywhere(self, st, event, cursor, child) ==
    IF child # Captured /\ event \in PressEvents /\ self.on_press
    THEN [state |-> [st EXCEPT !.is_pressed = TRUE], status |-> Captured,
          shell |-> ChildShell(child)]
    ELSE IF child = Captured
    THEN [state |-> st, status |-> Captured, shell |-> ChildShell(child)]
    ELSE OwnEvent(self, st, event, cursor, child)

\* OnEvent taking a press of the right button for a press of the left one.
OnEvent_AnyButtonPresses(self, st, event, cursor, child) ==
    IF child = Captured
    THEN [state |-> st, status |-> Captured, shell |-> ChildShell(child)]
    ELSE OwnEvent(self, st, IF event = "RightPressed" THEN "LeftPressed" ELSE event,
                  cursor, child)

\* OnEvent resetting only is_hovered on CursorLeft and FingerLost.
OnEvent_LostKeepsPressed(self, st, event, cursor, child) ==
    IF child # Captured /\ event \in LostEvents
    THEN [state |-> [st EXCEPT !.is_hovered = FALSE], status |-> Ignored,
          shell |-> ChildShell(child)]
    ELSE IF child = Captured
    THEN [state |-> st, status |-> Captured, shell |-> ChildShell(child)]
    ELSE OwnEvent(self, st, event, cursor, child)

\* OnEvent hovering and publishing on_select on a CursorMoved wherever the
\* cursor is.
OnEvent_SelectAnywhere(self, st, event, cursor, child) ==
    IF child # Captured /\ event = "CursorMoved"
    THEN [state |-> [st EXCEPT !.is_hovered = TRUE], status |-> Captured,
          shell |-> ChildShell(child) \o (IF self.on_select THEN <<"on_select">> ELSE <<>>)]
    ELSE IF child = Captured
    THEN [state |-> st, status |-> Captured, shell |-> ChildShell(child)]
    ELSE OwnEvent(self, st, event, cursor, child)

\* SelectionField::on_event once the content child has returned `child`:
\* the new State, the status and the messages published.
OnEvent(self, st, event, cursor, child) ==
    IF child = Captured
    THEN [state |-> st, status |-> Captured, shell |-> ChildShell(child)]
    ELSE OwnEvent(self, st, event, cursor, child)

\* A press that the field itself gets to see, over its bounds, with on_press set.
ArmingPress(d) ==
    /\ d.event \in PressEvents
    /\ d.child = Ignored
    /\ d.self.on_press
    /\ d.over

InitField ==
    /\ state = StateNew
    /\ dispatch = [self |-> [on_press |-> FALSE, on_select |-> FALSE], event |-> NoEvent,
                   over |-> FALSE, child |-> Ignored, before |-> StateNew,
                   status |-> Ignored, shell |-> <<>>]
    /\ armed = FALSE
    /\ left = "no"
    /\ recent = "off"

\* One dispatch: the view is rebuilt into the element `self` (the State is
\* kept), and `event` is dispatched to it.
on_event(self, event, cursor, child) ==
    LET r == OnEvent(self, state, event, cursor, child)
    IN  /\ state' = r.state
        /\ dispatch' = [self |-> self, event |-> event,
                        over |-> IsOver(cursor, LayoutBounds),  \* the cursor was over the bounds
                        child |-> child,
                        before |-> state,                       \* the State it found
                        status |-> r.status, shell |-> r.shell]
        /\ armed' = (ArmingPress(dispatch) \/ (armed /\ dispatch.event = "CursorMoved"))
        /\ left' = IF armed /\ dispatch.event \in LostEvents THEN dispatch.child
                   ELSE IF dispatch.event = "CursorMoved" THEN left
                   ELSE "no"
        /\ recent' = IF recent = "off" THEN "off"
                     ELSE IF dispatch.event \in PressEvents
                     THEN (IF dispatch.over THEN "press_over" ELSE "press_outside")
                     ELSE IF dispatch.event \in ReleaseEvents THEN "release"
                     ELSE IF dispatch.event \in LostEvents THEN "lost"
                     ELSE recent

NextField ==
    /\ \E self \in Fields, event \in Events, cursor \in Cursors,
          child \in {Captured, Ignored} :
            on_event(self, event, cursor, child)
    /\ UNCHANGED notField

----------------------------------------------------------------------------
(* Checkbox.                                                               *)

\* The Checkbox elements a rebuild can produce: is_checked, and on_toggle
\* Some (TRUE) or None (FALSE).
Checkboxes == [is_checked : BOOLEAN, on_toggle : BOOLEAN]

\* Checkbox::state(): a text::State holding the default paragraph.
TextStateNew == [paragraph |-> "default"]

\* CheckboxOnEvent capturing every press over the bounds, on_toggle or not.
CheckboxOnEvent_CapturesDisabled(self, tree, event, cursor) ==
    IF event \in PressEvents /\ IsOver(cursor, LayoutBounds)
    THEN [self |-> self, tree |-> tree, status |-> Captured,
          shell |-> IF self.on_toggle
                    THEN <<[message |-> "on_toggle", value |-> ~self.is_checked]>>
                    ELSE <<>>]
    ELSE [self |-> self, tree |-> tree, status |-> Ignored, shell |-> <<>>]

\* CheckboxOnEvent flipping its own is_checked when it publishes.
CheckboxOnEvent_TogglesItself(self, tree, event, cursor) ==
    IF event \in PressEvents /\ IsOver(cursor, LayoutBounds) /\ self.on_toggle
    THEN [self |-> [self EXCEPT !.is_checked = ~self.is_checked], tree |-> tree,
          status |-> Captured,
          shell |-> <<[message |-> "on_toggle", value |-> ~self.is_checked]>>]
    ELSE [self |-> self, tree |-> tree, status |-> Ignored, shell |-> <<>>]

\* CheckboxOnEvent taking the right and the bottom edge of the bounds for
\* part of them.
CheckboxOnEvent_InclusiveEdges(self, tree, event, cursor) ==
    IF /\ event \in PressEvents /\ self.on_toggle /\ cursor # Unavailable
       /\ LayoutBounds.x <= cursor[1][1]
       /\ cursor[1][1] <= LayoutBounds.x + LayoutBounds.width
       /\ LayoutBounds.y <= cursor[1][2]
       /\ cursor[1][2] <= LayoutBounds.y + LayoutBounds.height
    THEN [self |-> self, tree |-> tree, status |-> Captured,
          shell |-> <<[message |-> "on_toggle", value |-> ~self.is_checked]>>]
    ELSE [self |-> self, tree |-> tree, status |-> Ignored, shell |-> <<>>]

\* CheckboxOnEvent publishing is_checked as it is.
CheckboxOnEvent_PublishesCurrent(self, tree, event, cursor) ==
    IF event \in PressEvents /\ IsOver(cursor, LayoutBounds) /\ self.on_toggle
    THEN [self |-> self, tree |-> tree, status |-> Captured,
          shell |-> <<[message |-> "on_toggle", value |-> self.is_checked]>>]
    ELSE [self |-> self, tree |-> tree, status |-> Ignored, shell |-> <<>>]

\* Checkbox::on_event: the element and its tree state after the call, the
\* status and the messages published.
CheckboxOnEvent(self, tree, event, cursor) ==
    IF event \in PressEvents /\ IsOver(cursor, LayoutBounds) /\ self.on_toggle
    THEN [self |-> self, tree |-> tree, status |-> Captured,
          shell |-> <<[message |-> "on_toggle", value |-> ~self.is_checked]>>]
    ELSE [self |-> self, tree |-> tree, status |-> Ignored, shell |-> <<>>]

\* Checkbox::new followed by on_toggle_maybe: a new instance, with a new tree
\* state, no event dispatched to it yet.  `before` is the element and the tree
\* state the last call found, `earlier` the value the instance published on
\* an earlier press, if any.
CheckboxNew(is_checked, on_toggle) ==
    [self |-> [is_checked |-> is_checked, on_toggle |-> on_toggle],
     tree |-> TextStateNew, event |-> NoEvent, cursor |-> Unavailable,
     status |-> Ignored, shell |-> <<>>,
     before |-> [self |-> [is_checked |-> is_checked, on_toggle |-> on_toggle],
                 tree |-> TextStateNew],
     earlier |-> None]

InitCheckbox == checkbox = CheckboxNew(FALSE, FALSE)

checkbox_new(is_checked, on_toggle) ==
    /\ checkbox' = CheckboxNew(is_checked, on_toggle)
    /\ UNCHANGED notCheckbox

checkbox_on_event(event, cursor) ==
    LET r == CheckboxOnEvent(checkbox.self, checkbox.tree, event, cursor)
    IN  /\ checkbox' = [self |-> r.self, tree |-> r.tree, event |-> event,
                        cursor |-> cursor, status |-> r.status, shell |-> r.shell,
                        before |-> [self |-> checkbox.self, tree |-> checkbox.tree],
                        earlier |-> IF checkbox.shell # <<>>
                                    THEN Some(checkbox.shell[1].value)
                                    ELSE checkbox.earlier]
        /\ UNCHANGED notCheckbox

NextCheckbox ==
    \/ \E is_checked \in BOOLEAN, on_toggle \in BOOLEAN : checkbox_new(is_checked, on_toggle)
    \/ \E event \in Events, cursor \in Cursors : checkbox_on_event(event, cursor)

----------------------------------------------------------------------------
(* Layout: lengths, Size, Padding, Limits, Node.                           *)

\* f32::INFINITY, larger than every sum of finite lengths of the model.
Infinity == 1000000

\* a + b and a - b in f32, for a finite b.
Add(a, b) == IF a = Infinity THEN Infinity ELSE a + b
Sub(a, b) == IF a = Infinity THEN Infinity ELSE a - b

\* (a - b).max(0.0) in f32: INFINITY - INFINITY is NaN, and NaN.max(0.0) is 0.0.
SubMax0(a, b) ==
    IF b = Infinity THEN 0
    ELSE IF a = Infinity THEN Infinity
    ELSE Max(a - b, 0)

Size(w, h) == [width |-> w, height |-> h]
Point(x, y) == [x |-> x, y |-> y]

\* The lengths of the model: the finite ones and INFINITY.
Lens == (0..MaxLen) \cup {Infinity}

\* Length
Shrink == [kind |-> "Shrink", amount |-> 0]
Fill == [kind |-> "Fill", amount |-> 0]
Fixed(amount) == [kind |-> "Fixed", amount |-> amount]
Lengths == {Shrink, Fill} \cup {Fixed(a) : a \in 0..MaxLen}

\* Padding::from([vertical, horizontal]); Padding::new(p) is PaddingOf(p, p).
PaddingOf(vertical, horizontal) ==
    [top |-> vertical, right |-> horizontal, bottom |-> vertical, left |-> horizontal]
Paddings == {PaddingOf(v, h) : v \in 0..MaxPad, h \in 0..MaxPad}

\* Padding::fit: the padding shrunk to what `outer` leaves around `inner`, the
\* top and left sides first.
PaddingFit(padding, inner, outer) ==
    LET available == Size(SubMax0(outer.width, inner.width),
                          SubMax0(outer.height, inner.height))
        new_top == Min(padding.top, available.height)
        new_left == Min(padding.left, available.width)
    IN  [top |-> new_top,
         bottom |-> Min(padding.bottom, Sub(available.height, new_top)),
         left |-> new_left,
         right |-> Min(padding.right, Sub(available.width, new_left))]

\* Limits::new(min, max)
LimitsNew(min, max) == [min |-> min, max |-> max, fill |-> Size(Infinity, Infinity)]

\* Limits::width(length)
LimitsWidth(limits, length) ==
    IF length.kind = "Shrink"
    THEN [limits EXCEPT !.fill.width = limits.min.width]
    ELSE IF length.kind = "Fill"
    THEN [limits EXCEPT !.fill.width = Min(limits.fill.width, limits.max.width)]
    ELSE LET new_width == Max(Min(length.amount, limits.max.width), limits.min.width)
         IN  [limits EXCEPT !.min.width = new_width, !.max.width = new_width,
                            !.fill.width = new_width]

\* Limits::height(length)
LimitsHeight(limits, length) ==
    IF length.kind = "Shrink"
    THEN [limits EXCEPT !.fill.height = limits.min.height]
    ELSE IF length.kind = "Fill"
    THEN [limits EXCEPT !.fill.height = Min(limits.fill.height, limits.max.height)]
    ELSE LET new_height == Max(Min(length.amount, limits.max.height), limits.min.height)
         IN  [limits EXCEPT !.min.height = new_height, !.max.height = new_height,
                            !.fill.height = new_height]

\* Limits::pad(padding): Limits::shrink by the padding of both sides.
LimitsPad(limits, padding) ==
    LET horizontal == padding.left + padding.right
        vertical == padding.top + padding.bottom
    IN  [min |-> Size(SubMax0(limits.min.width, horizontal),
                      SubMax0(limits.min.height, vertical)),
         max |-> Size(SubMax0(limits.max.width, horizontal),
                      SubMax0(limits.max.height, vertical)),
         fill |-> Size(SubMax0(limits.fill.width, horizontal),
                       SubMax0(limits.fill.height, vertical))]

\* Limits::resolve(intrinsic_size)
LimitsResolve(limits, intrinsic_size) ==
    Size(Max(Min(intrinsic_size.width, limits.max.width), limits.fill.width),
         Max(Min(intrinsic_size.height, limits.max.height), limits.fill.height))

\* Size::pad(padding)
SizePad(size, padding) ==
    Size(Add(size.width, padding.left + padding.right),
         Add(size.height, padding.top + padding.bottom))

\* Node::new(size), Node::with_children(size, children), Node::move_to(point)
NodeNew(size) == [size |-> size, position |-> Point(0, 0), children |-> <<>>]
NodeWithChildren(size, children) ==
    [size |-> size, position |-> Point(0, 0), children |-> children]
NodeMoveTo(node, point) == [node EXCEPT !.position = point]

----------------------------------------------------------------------------
(* SelectionField::layout.                                                 *)

\* SelectionField::new: Length::Shrink both ways, Padding::new(2.0).
SelectionFieldNew == [width |-> Shrink, height |-> Shrink, padding |-> PaddingOf(2, 2)]

\* The limits SelectionField::layout hands to its content.
SelectionFieldLimits(self, limits) == LimitsHeight(LimitsWidth(limits, self.width), self.height)

\* SelectionFieldLayout padding the node by self.padding as it is.
SelectionFieldLayout_NoFit(self, limits, content) ==
    LET own == SelectionFieldLimits(self, limits)
        size == SizePad(LimitsResolve(LimitsPad(own, self.padding), content.size),
                        self.padding)
    IN  NodeWithChildren(size,
            <<NodeMoveTo(content, Point(self.padding.left, self.padding.top))>>)

\* SelectionField::layout, given the node its content returned for
\* SelectionFieldLimits(self, limits).
SelectionFieldLayout(self, limits, content) ==
    LET own == SelectionFieldLimits(self, limits)
        padding == PaddingFit(self.padding, content.size, own.max)
        size == SizePad(LimitsResolve(LimitsPad(own, padding), content.size), padding)
    IN  NodeWithChildren(size, <<NodeMoveTo(content, Point(padding.left, padding.top))>>)

\* The limits a parent hands to layout: Limits::new(min, max) with min no
\* larger than max, a zero and an unbounded max among them.
AxisLimits == {axis \in (0..1) \X Lens : axis[1] <= axis[2]}
LimitsIn ==
    {LimitsNew(Size(w[1], h[1]), Size(w[2], h[2])) : w \in AxisLimits, h \in AxisLimits}

\* The sizes a content node can have under `limits`: none exceeds limits.max.
ContentSizes(limits) ==
    {Size(w, h) : w \in {x \in Lens : x <= limits.max.width},
                  h \in {y \in Lens : y <= limits.max.height}}

\* A SelectionField just built, or built and laid out.
Built(self) ==
    [phase |-> "built", self |-> self, limits |-> None, content |-> None, node |-> None]

InitLayout == lay = Built(SelectionFieldNew)

\* SelectionField::new: the view builds the field anew.
field_new ==
    /\ lay' = Built(SelectionFieldNew)
    /\ UNCHANGED notLayout

\* SelectionField::width
field_width(length) ==
    /\ lay.phase = "built"
    /\ lay' = Built([lay.self EXCEPT !.width = length])
    /\ UNCHANGED notLayout

\* SelectionField::height
field_height(length) ==
    /\ lay.phase = "built"
    /\ lay' = Built([lay.self EXCEPT !.height = length])
    /\ UNCHANGED notLayout

\* SelectionField::padding
field_padding(padding) ==
    /\ lay.phase = "built"
    /\ lay' = Built([lay.self EXCEPT !.padding = padding])
    /\ UNCHANGED notLayout

\* SelectionField::layout on the field as built, once per view, for some
\* limits and some size of the content's node.
field_layout ==
    /\ lay.phase = "built"
    /\ \E limits \in LimitsIn :
          \E size \in ContentSizes(SelectionFieldLimits(lay.self, limits)) :
              lay' = [phase |-> "laid", self |-> lay.self, limits |-> Some(limits),
                      content |-> Some(size),
                      node |-> Some(SelectionFieldLayout(lay.self, limits, NodeNew(size)))]
    /\ UNCHANGED notLayout

NextLayout ==
    \/ field_new
    \/ \E length \in Lengths : field_width(length)
    \/ \E length \in Lengths : field_height(length)
    \/ \E padding \in Paddings : field_padding(padding)
    \/ field_layout

----------------------------------------------------------------------------
(* Elements, the persistent Tree and its reconciliation.                   *)

\* A Checkbox element, and a SelectionField element around a content element.
CheckboxElement(is_checked, on_toggle) ==
    [kind |-> "Checkbox", is_checked |-> is_checked, on_toggle |-> on_toggle,
     content |-> <<>>]
FieldElement(on_press, content) ==
    [kind |-> "SelectionField", on_press |-> on_press, on_select |-> FALSE,
     width |-> SelectionFieldNew.width, height |-> SelectionFieldNew.height,
     padding |-> SelectionFieldNew.padding, content |-> <<content>>]

\* The views of the model: a Checkbox inside at most `depth` SelectionFields.
RECURSIVE ElementsOf(_)
ElementsOf(depth) ==
    IF depth = 0
    THEN {CheckboxElement(is_checked, on_toggle) : is_checked \in BOOLEAN, on_toggle \in BOOLEAN}
    ELSE LET inner == ElementsOf(depth - 1)
         IN  inner \cup {FieldElement(b, e) : b \in BOOLEAN, e \in inner}
Elements == ElementsOf(MaxDepth)

\* SelectionField::tag: Tag::of::<State>().
SelectionFieldTag == "selection_field::State"

\* Checkbox::tag with the Tag of SelectionField.
CheckboxTag_OfState == "selection_field::State"

\* Checkbox::tag: Tag::of::<text::State<Paragraph>>().
CheckboxTag == "text::State<Paragraph>"

\* SelectionField::state returning a State that is pressed.
SelectionFieldState_Pressed ==
    [type |-> "selection_field::State", value |-> [is_hovered |-> FALSE, is_pressed |-> TRUE]]

\* SelectionField::state: tree::State::new(State::new()), a blob that holds
\* the type of its value.
SelectionFieldState == [type |-> "selection_field::State", value |-> StateNew]

\* Checkbox::state: tree::State::new(text::State::default()).
CheckboxState == [type |-> "text::State<Paragraph>", value |-> TextStateNew]

\* Widget::tag and Widget::state of an element.
WidgetTag(e) == IF e.kind = "SelectionField" THEN SelectionFieldTag ELSE CheckboxTag
WidgetState(e) == IF e.kind = "SelectionField" THEN SelectionFieldState ELSE CheckboxState

RECURSIVE TreeNew(_), TreeDiff(_, _)

\* SelectionField::children returning no Tree.
SelectionFieldChildren_Empty(self) == <<>>

\* SelectionField::children: vec![Tree::new(&self.content)].
SelectionFieldChildren(self) == <<TreeNew(self.content[1])>>

\* Widget::children of an element; Checkbox keeps the default, no children.
WidgetChildren(e) == IF e.kind = "SelectionField" THEN SelectionFieldChildren(e) ELSE <<>>

\* Tree::new(element)
TreeNew(e) == [tag |-> WidgetTag(e), state |-> WidgetState(e), children |-> WidgetChildren(e)]

\* Tree::diff_children: the children diffed position by position, cut or
\* extended with new Trees to the length of new_children.
DiffChildren(tree, new_children) ==
    [tree EXCEPT !.children =
        [i \in 1..Len(new_children) |->
            IF i <= Len(tree.children)
            THEN TreeDiff(tree.children[i], new_children[i])
            ELSE TreeNew(new_children[i])]]

\* SelectionField::diff replacing the children with new Trees.
SelectionFieldDiff_FreshChildren(self, tree) ==
    [tree EXCEPT !.children = <<TreeNew(self.content[1])>>]

\* SelectionField::diff: tree.diff_children(from_mut(&mut self.content)).
SelectionFieldDiff(self, tree) == DiffChildren(tree, self.content)

\* Widget::diff of an element; Checkbox keeps the default, which does nothing.
WidgetDiff(e, tree) == IF e.kind = "SelectionField" THEN SelectionFieldDiff(e, tree) ELSE tree

\* Tree::diff(element): the widget's own diff when the tags match, a new Tree
\* when they do not.
TreeDiff(tree, e) == IF tree.tag = WidgetTag(e) THEN WidgetDiff(e, tree) ELSE TreeNew(e)

----------------------------------------------------------------------------
(* The view: diff, layout, event dispatch and draw over Element and Tree.  *)

\* How a walk over the view ends: "ok", or the panic that stopped it:
\* "index" for tree.children[0] out of bounds, "unwrap" for
\* layout.children().next().unwrap() on None, "downcast" for a state blob of
\* another type than the one asked for.
Panics == {"index", "unwrap", "downcast"}

\* The limits the root of the view is laid out under.
ViewLimits == LimitsNew(Size(0, 0), Size(MaxLen, MaxLen))

\* Checkbox::layout: the label is laid out into the text::State of the tree
\* node; the node has the box and the label as children.
CheckboxLayout(self, tree, limits) ==
    IF tree.state.type # "text::State<Paragraph>"
    THEN [tree |-> tree, node |-> NodeNew(Size(0, 0)), result |-> "downcast"]
    ELSE LET box == Size(Min(1, limits.max.width), Min(1, limits.max.height))
         IN  [tree |-> [tree EXCEPT !.state.value = [paragraph |-> "label"]],
              node |-> NodeWithChildren(box, <<NodeNew(box), NodeNew(Size(0, 0))>>),
              result |-> "ok"]

\* Widget::layout of an element: the tree as layout leaves it, the node and
\* how the walk ended.  The content of a SelectionField is laid out with the
\* tree node that on_event and draw hand it, tree.children[0].
RECURSIVE TreeLayout(_, _, _)
TreeLayout(e, tree, limits) ==
    IF e.kind = "Checkbox"
    THEN CheckboxLayout(e, tree, limits)
    ELSE IF Len(tree.children) = 0
    THEN [tree |-> tree, node |-> NodeNew(Size(0, 0)), result |-> "index"]
    ELSE LET c == TreeLayout(e.content[1], tree.children[1], SelectionFieldLimits(e, limits))
         IN  [tree |-> [tree EXCEPT !.children[1] = c.tree],
              node |-> SelectionFieldLayout(e, limits, c.node),
              result |-> c.result]

\* Widget::on_event of an element: the tree as the call leaves it, the
\* status, the messages published and how the walk ended.
RECURSIVE TreeOnEvent(_, _, _, _, _)
TreeOnEvent(e, tree, node, event, cursor) ==
    LET panic(p) == [tree |-> tree, status |-> Ignored, shell |-> <<>>, result |-> p]
    IN  IF e.kind = "Checkbox"
        THEN LET r == CheckboxOnEvent(e, tree.state, event, cursor)
             IN  [tree |-> [tree EXCEPT !.state = r.tree], status |-> r.status,
                  shell |-> r.shell, result |-> "ok"]
        ELSE IF Len(tree.children) = 0 THEN panic("index")
        ELSE IF Len(node.children) = 0 THEN panic("unwrap")
        ELSE LET c == TreeOnEvent(e.content[1], tree.children[1], node.children[1],
                                  event, cursor)
                 walked == [tree EXCEPT !.children[1] = c.tree]
             IN  IF c.result # "ok" \/ c.status = Captured
                 THEN [tree |-> walked, status |-> c.status, shell |-> c.shell,
                       result |-> c.result]
                 ELSE IF tree.state.type # "selection_field::State"
                 THEN [tree |-> walked, status |-> Ignored, shell |-> c.shell,
                       result |-> "downcast"]
                 ELSE LET r == OwnEvent(e, tree.state.value, event, cursor, c.status)
                      IN  [tree |-> [walked EXCEPT !.state.value = r.state],
                           status |-> r.status, shell |-> c.shell \o r.shell,
                           result |-> "ok"]

\* Widget::draw of an element: how the walk ended.
RECURSIVE TreeDraw(_, _, _)
TreeDraw(e, tree, node) ==
    IF e.kind = "Checkbox"
    THEN IF Len(node.children) < 2 THEN "unwrap"
         ELSE IF tree.state.type # "text::State<Paragraph>" THEN "downcast"
         ELSE "ok"
    ELSE IF Len(node.children) = 0 THEN "unwrap"
    ELSE IF Len(tree.children) = 0 THEN "index"
    ELSE TreeDraw(e.content[1], tree.children[1], node.children[1])

\* The cursors of a dispatch to the view: unavailable, outside the bounds,
\* over them.
ViewCursors == {Unavailable, Available(<<0, 0>>), Available(<<1, 1>>)}

\* The view after a call.  After a diff, `old` and `before` are the element
\* and the tree the diff found; `replaced` is whether the last diff found a
\* root element of another kind than the new one.
View(op, element, tree, layout, result, status, shell, old, before, replaced) ==
    [op |-> op, element |-> element, tree |-> tree, layout |-> layout,
     result |-> result, status |-> status, shell |-> shell,
     old |-> old, before |-> before, replaced |-> replaced]

\* The first view: Tree::new of its root element.
InitTree ==
    LET root == CheckboxElement(FALSE, FALSE)
    IN  ui = View("new", root, TreeNew(root), None, "ok", Ignored, <<>>,
                  root, TreeNew(root), FALSE)

\* The view is rebuilt and the Tree diffed against its new root element.
view_diff(new) ==
    /\ ui.result = "ok"
    /\ ui' = View("diff", new, TreeDiff(ui.tree, new), None, "ok", Ignored, <<>>,
                  ui.element, ui.tree, ui.element.kind # new.kind)
    /\ UNCHANGED notTree

\* The view is laid out.
view_layout ==
    /\ ui.result = "ok"
    /\ LET r == TreeLayout(ui.element, ui.tree, ViewLimits)
       IN  ui' = View("layout", ui.element, r.tree, Some(r.node), r.result, Ignored, <<>>,
                      ui.element, r.tree, ui.replaced)
    /\ UNCHANGED notTree

\* An event is dispatched to the view as laid out.
view_on_event(event, cursor) ==
    /\ ui.result = "ok" /\ ui.layout # None
    /\ LET r == TreeOnEvent(ui.element, ui.tree, Unwrap(ui.layout), event, cursor)
       IN  ui' = View("on_event", ui.element, r.tree, ui.layout, r.result, r.status,
                      r.shell, ui.element, r.tree, ui.replaced)
    /\ UNCHANGED notTree

\* The view as laid out is drawn.
view_draw ==
    /\ ui.result = "ok" /\ ui.layout # None
    /\ ui' = View("draw", ui.element, ui.tree, ui.layout,
                  TreeDraw(ui.element, ui.tree, Unwrap(ui.layout)), Ignored, <<>>,
                  ui.element, ui.tree, ui.replaced)
    /\ UNCHANGED notTree

NextTree ==
    \/ \E new \in Elements : view_diff(new)
    \/ view_layout
    \/ \E event \in Events, cursor \in ViewCursors : view_on_event(event, cursor)
    \/ view_draw

----------------------------------------------------------------------------
(* Overlapping siblings: dispatch to a container with several children.     *)

\* A container's on_event: the children are asked one after the other, the
\* later-declared (topmost) first, against the same bounds; the first that
\* returns Captured ends the walk.  `ran` lists the children whose handler
\* ran, `shell` what they published, each message with the child it is from.
RECURSIVE ContainerOnEvent(_, _, _, _)
ContainerOnEvent(children, i, event, cursor) ==
    IF i = 0
    THEN [status |-> Ignored, shell |-> <<>>, ran |-> <<>>]
    ELSE LET r == CheckboxOnEvent(children[i], TextStateNew, event, cursor)
             published == [k \in 1..Len(r.shell) |->
                              [from |-> i, message |-> r.shell[k].message,
                               value |-> r.shell[k].value]]
         IN  IF r.status = Captured
             THEN [status |-> Captured, shell |-> published, ran |-> <<i>>]
             ELSE LET rest == ContainerOnEvent(children, i - 1, event, cursor)
                  IN  [status |-> rest.status, shell |-> published \o rest.shell,
                       ran |-> <<i>> \o rest.ran]

\* The view of the siblings: a SelectionField with the State it keeps, around
\* a container of two Checkboxes in the order they were declared.  `before`
\* is the State the last dispatch found.
Siblings(op, self, children, st, event, cursor, status, shell, ran, before) ==
    [op |-> op, self |-> self, children |-> children, state |-> st,
     event |-> event, cursor |-> cursor, status |-> status, shell |-> shell,
     ran |-> ran, before |-> before]

InitSiblings ==
    stack = Siblings("view", [on_press |-> FALSE, on_select |-> FALSE],
                     <<[is_checked |-> FALSE, on_toggle |-> FALSE],
                       [is_checked |-> FALSE, on_toggle |-> FALSE]>>,
                     StateNew, NoEvent, Unavailable, Ignored, <<>>, <<>>, StateNew)

\* The view is rebuilt: a new SelectionField and new Checkboxes; the State
\* is kept.
siblings_view(self, first, second) ==
    /\ stack' = Siblings("view", self, <<first, second>>, stack.state, NoEvent,
                         Unavailable, Ignored, <<>>, <<>>, stack.state)
    /\ UNCHANGED notSiblings

\* An event is dispatched to the view: the SelectionField asks its content,
\* the container, which asks the siblings.
siblings_on_event(event, cursor) ==
    /\ LET c == ContainerOnEvent(stack.children, Len(stack.children), event, cursor)
           r == OnEvent(stack.self, stack.state, event, cursor, c.status)
           own == SubSeq(r.shell, Len(ChildShell(c.status)) + 1, Len(r.shell))
       IN  stack' = Siblings("on_event", stack.self, stack.children, r.state, event,
                             cursor, r.status,
                             c.shell \o [k \in 1..Len(own) |->
                                            [from |-> 0, message |-> own[k], value |-> FALSE]],
                             c.ran, stack.state)
    /\ UNCHANGED notSiblings

NextSiblings ==
    \/ \E self \in Fields, first \in Checkboxes, second \in Checkboxes :
          siblings_view(self, first, second)
    \/ \E event \in Events, cursor \in ViewCursors : siblings_on_event(event, cursor)

----------------------------------------------------------------------------
(* The layout of a row: fixed and shrinking children first, then the       *)
(* children that fill.                                                     *)

\* Length::fill_factor: the weight of a child that fills, 0 for the others.
FillFactor(length) == IF length.kind = "Fill" THEN 1 ELSE 0

\* The widths a child of the model's rows can ask for; a shrinking child has
\* a content of width 20.
RowLengths == {Fill, Shrink, Fixed(50), Fixed(250)}

\* The rows of the model: one or two children.
Rows == {children \in SeqsUpTo(RowLengths, 2) : children # <<>>}

\* The spacings of a row and the widths a parent constrains it to.
RowSpacings == {0, 10, 250}
RowWidths == {0, 30, 100, 200}

\* The width of a child that does not fill, laid out under Limits of max
\* width `available` and min width 0.
ChildWidth(length, available) ==
    IF length.kind = "Fixed"
    THEN Max(Min(length.amount, available), 0)
    ELSE Max(Min(20, available), 0)

\* The first pass of the row: the children that do not fill are laid out in
\* order, each under what the ones before it left; the others get 0 for now.
RECURSIVE FirstPass(_, _)
FirstPass(children, available) ==
    IF children = <<>>
    THEN [widths |-> <<>>, available |-> available]
    ELSE LET w == IF FillFactor(Head(children)) = 0
                  THEN ChildWidth(Head(children), available)
                  ELSE 0
             rest == FirstPass(Tail(children), available - w)
         IN  [widths |-> <<w>> \o rest.widths, available |-> rest.available]

RECURSIVE SumOf(_)
SumOf(seq) == IF seq = <<>> THEN 0 ELSE Head(seq) + SumOf(Tail(seq))

\* FlexResolve giving the children that fill what is left, below zero too.
FlexResolve_NoFloor(children, spacing, width) ==
    LET first == FirstPass(children, width - spacing * Max(Len(children) - 1, 0))
        fill_sum == SumOf([i \in 1..Len(children) |-> FillFactor(children[i])])
    IN  [i \in 1..Len(children) |->
            IF FillFactor(children[i]) = 0
            THEN first.widths[i]
            ELSE -(((0 - first.available) * FillFactor(children[i])) \div fill_sum)]

\* The widths a row gives its children under a max width: the spacing comes
\* off first; the children that do not fill are satisfied; what remains, no
\* less than zero, is shared by the children that fill, by their weights.
FlexResolve(children, spacing, width) ==
    LET first == FirstPass(children, width - spacing * Max(Len(children) - 1, 0))
        remaining == Max(first.available, 0)
        fill_sum == SumOf([i \in 1..Len(children) |-> FillFactor(children[i])])
    IN  [i \in 1..Len(children) |->
            IF FillFactor(children[i]) = 0
            THEN first.widths[i]
            ELSE (remaining * FillFactor(children[i])) \div fill_sum]

\* A row as built, or as laid out last; `after` is the width of the layout
\* before the last one.
Row(op, children, spacing, width, widths, after) ==
    [op |-> op, children |-> children, spacing |-> spacing, width |-> width,
     widths |-> widths, after |-> after]

InitRow == row = Row("new", <<Fill, Fixed(50)>>, 0, None, None, None)

\* The view builds a row.
row_new(children, spacing) ==
    /\ row' = Row("new", children, spacing, None, None, None)
    /\ UNCHANGED notRow

\* The row is laid out under a parent constrained to `width`; a resize is
\* another layout of the same row.
row_layout(width) ==
    /\ row' = Row("layout", row.children, row.spacing, Some(width),
                  Some(FlexResolve(row.children, row.spacing, width)), row.width)
    /\ UNCHANGED notRow

NextRow ==
    \/ \E children \in Rows, spacing \in RowSpacings : row_new(children, spacing)
    \/ \E width \in RowWidths : row_layout(width)

----------------------------------------------------------------------------
(* The application of the Checkbox example: State, view and update.        *)

\* view(state): checkbox("Toggle me!", state.is_checked)
\*                  .on_toggle(Message::CheckboxToggled)
AppView(st) == [is_checked |-> st.is_checked, on_toggle |-> TRUE]

\* update(state, message): CheckboxToggled(is_checked) is stored.
AppUpdate(st, message) == [st EXCEPT !.is_checked = message.value]

\* update for every message of a shell, in order.
RECURSIVE AppUpdateAll(_, _)
AppUpdateAll(st, shell) ==
    IF shell = <<>> THEN st ELSE AppUpdateAll(AppUpdate(st, Head(shell)), Tail(shell))

\* The application with State `st`, no event dispatched yet.  `before` is
\* the State the last event found, `pressed_from` the State the last press
\* over the checkbox found (this one, if the event is such a press) and
\* `pressed_before` the State the press over it before that one found.
AppNew(st) ==
    [state |-> st, event |-> NoEvent, cursor |-> Unavailable, status |-> Ignored,
     before |-> st, pressed_from |-> None, pressed_before |-> None]

InitApp == app = AppNew([is_checked |-> FALSE])

\* One turn of the application: the event is dispatched to the view built
\* from the State, update takes the messages published, and the view is
\* built again for the next event.
app_on_event(event, cursor) ==
    /\ LET r == CheckboxOnEvent(AppView(app.state), TextStateNew, event, cursor)
           press == event \in PressEvents /\ IsOver(cursor, LayoutBounds)
       IN  app' = [state |-> AppUpdateAll(app.state, r.shell),
                   event |-> event, cursor |-> cursor, status |-> r.status,
                   before |-> app.state,
                   pressed_from |-> IF press THEN Some(app.state) ELSE app.pressed_from,
                   pressed_before |-> IF press THEN app.pressed_from
                                      ELSE app.pressed_before]
    /\ UNCHANGED notApp

NextApp == \E event \in Events, cursor \in Cursors : app_on_event(event, cursor)

----------------------------------------------------------------------------
(* The input method: the Wayland callbacks fill SctkState::sctk_events.    *)

\* sctk's Modifiers: none active, or shift.
NoModifiers ==
    [ctrl |-> FALSE, alt |-> FALSE, shift |-> FALSE, caps_lock |-> FALSE,
     logo |-> FALSE, num_lock |-> FALSE]
SctkModifiers == {NoModifiers, [NoModifiers EXCEPT !.shift = TRUE]}

\* sctk's KeyEvent for a press (or a repeat) of a key: the key "a" with its
\* text, the left shift key without any.
PressedKeys ==
    {[time |-> 1, raw_code |-> 30, keysym |-> "a", utf8 |-> Some("a")],
     [time |-> 1, raw_code |-> 42, keysym |-> "Shift_L", utf8 |-> None]}

\* sctk's KeyEvent for a release of a key: utf8 is None on release events.
ReleasedKeys == {[key EXCEPT !.time = 2, !.utf8 = None] : key \in PressedKeys}

\* The events of zwp_input_method_v2.
InputMethodEvents ==
    {"Activate", "Deactivate", "SurroundingText", "TextChangeCause", "ContentType",
     "Done", "Unavailable"}

\* KeyEvent::from taking the text of a key from its keysym.
KeyEventFrom_TextOfKeysym(value) ==
    [time |-> value.time, raw_code |-> value.raw_code, keysym |-> value.keysym,
     utf8 |-> Some(value.keysym)]

\* impl From<sctk::seat::keyboard::KeyEvent> for KeyEvent
KeyEventFrom(value) ==
    [time |-> value.time, raw_code |-> value.raw_code, keysym |-> value.keysym,
     utf8 |-> value.utf8]

\* impl From<sctk::seat::keyboard::Modifiers> for Modifiers
ModifiersFrom(value) ==
    [ctrl |-> value.ctrl, alt |-> value.alt, shift |-> value.shift,
     caps_lock |-> value.caps_lock, logo |-> value.logo, num_lock |-> value.num_lock]

\* SctkEvent::InputMethodEvent and SctkEvent::InputMethodKeyboardEvent
SctkInputMethodEvent(variant) == [kind |-> "InputMethodEvent", variant |-> variant]
SctkKeyboardEvent(variant, payload) ==
    [kind |-> "InputMethodKeyboardEvent", variant |-> variant, payload |-> payload]

\* The wayland::Event the application gets for an SctkEvent of the input
\* method.
WaylandEvent(sctk_event) ==
    IF sctk_event.kind = "InputMethodEvent"
    THEN [kind |-> "InputMethod", variant |-> sctk_event.variant]
    ELSE IF sctk_event.variant = "Modifiers"
    THEN [kind |-> "InputMethodKeyboard", variant |-> "Modifiers",
          payload |-> ModifiersFrom(sctk_event.payload)]
    ELSE [kind |-> "InputMethodKeyboard", variant |-> sctk_event.variant,
          payload |-> KeyEventFrom(sctk_event.payload)]

\* `last` is the last callback that ran, or "drain".
InitInputMethod ==
    im = [sctk_events |-> <<>>, delivered |-> None, result |-> "ok", last |-> "none"]

\* Push putting the event in front of those that wait.
Push_Front(callback, event) ==
    /\ im.result = "ok"
    /\ Len(im.sctk_events) < MaxQueue
    /\ im' = [im EXCEPT !.sctk_events = <<event>> \o im.sctk_events, !.last = callback]
    /\ UNCHANGED notInputMethod

\* state.sctk_events.push(event), in `callback`.
Push(callback, event) ==
    /\ im.result = "ok"
    /\ Len(im.sctk_events) < MaxQueue
    /\ im' = [im EXCEPT !.sctk_events = Append(im.sctk_events, event), !.last = callback]
    /\ UNCHANGED notInputMethod

\* Dispatch<ZwpInputMethodV2, InputMethod, SctkState<T>>::event
input_method_event(event) ==
    IF event \in {"Activate", "Deactivate"}
    THEN Push(event, SctkInputMethodEvent(event))
    ELSE /\ im.result = "ok"
         /\ im' = [im EXCEPT !.result = IF event = "Unavailable" THEN "panic" ELSE "ok",
                             !.last = event]
         /\ UNCHANGED notInputMethod

\* InputMethodKeyboardHandler::press_key
im_press_key(event) == Push("press_key", SctkKeyboardEvent("Press", event))

\* InputMethodKeyboardHandler::release_key
im_release_key(event) == Push("release_key", SctkKeyboardEvent("Release", event))

\* InputMethodKeyboardHandler::update_modifiers
im_update_modifiers(modifiers) ==
    Push("update_modifiers", SctkKeyboardEvent("Modifiers", modifiers))

\* The callback InputMethodManager::input_method gives to
\* grab_keyboard_with_repeat: a key repeats.
im_repeat(event) == Push("repeat", SctkKeyboardEvent("Repeat", event))

\* The event loop takes the first event of sctk_events and hands it to the
\* application.
im_drain ==
    /\ im.result = "ok"
    /\ im.sctk_events # <<>>
    /\ im' = [im EXCEPT !.sctk_events = Tail(im.sctk_events),
                        !.delivered = Some(WaylandEvent(Head(im.sctk_events))),
                        !.last = "drain"]
    /\ UNCHANGED notInputMethod

NextInputMethod ==
    \/ \E event \in InputMethodEvents : input_method_event(event)
    \/ \E event \in PressedKeys : im_press_key(event)
    \/ \E event \in ReleasedKeys : im_release_key(event)
    \/ \E modifiers \in SctkModifiers : im_update_modifiers(modifiers)
    \/ \E event \in PressedKeys : im_repeat(event)
    \/ im_drain

----------------------------------------------------------------------------
(* The virtual keyboard: SctkState::press_key and release_key.             *)

\* The KeyEvents handed to press_key and release_key.
VirtualKeys == {KeyEventFrom(key) : key \in PressedKeys \cup ReleasedKeys}

\* wl_keyboard::KeyState
Pressed == "Pressed"
Released == "Released"

\* A seat as it joins SctkState::seats: with a virtual keyboard or without
\* one, and no request sent to it yet.
SeatNew(virtual_keyboard) == [virtual_keyboard |-> virtual_keyboard, requests |-> <<>>]

InitVirtualKeyboard ==
    kbd = [seats |-> <<>>, call |-> [op |-> "new"], result |-> "ok"]

\* SendKey sending the request on every seat that has a virtual keyboard.
SendKey_EverySeat(seats, key, key_state) ==
    IF seats = <<>> THEN None
    ELSE Some([i \in 1..Len(seats) |->
                  IF seats[i].virtual_keyboard
                  THEN [seats[i] EXCEPT
                           !.requests = Append(@, [time |-> key.time, key |-> key.raw_code,
                                                   state |-> key_state])]
                  ELSE seats[i]])

\* The body of press_key and of release_key: the seats after the call, None
\* when seats.first() is None and the expect panics.
SendKey(seats, key, key_state) ==
    IF seats = <<>> THEN None
    ELSE IF seats[1].virtual_keyboard
    THEN Some([seats EXCEPT
                  ![1].requests = Append(@, [time |-> key.time, key |-> key.raw_code,
                                             state |-> key_state])])
    ELSE Some(seats)

\* A call of press_key or release_key.
KeyCall(op, key, key_state) ==
    /\ kbd.result = "ok"
    /\ \A i \in 1..Len(kbd.seats) : Len(kbd.seats[i].requests) < MaxRequests
    /\ LET sent == SendKey(kbd.seats, key, key_state)
       IN  kbd' = [seats |-> IF sent = None THEN kbd.seats ELSE Unwrap(sent),
                   call |-> [op |-> op, key |-> key],
                   result |-> IF sent = None THEN "panic" ELSE "ok"]
    /\ UNCHANGED notVirtualKeyboard

\* SctkState::press_key(key)
vk_press_key(key) == KeyCall("press_key", key, Pressed)

\* SctkState::release_key(key)
vk_release_key(key) == KeyCall("release_key", key, Released)

\* A seat joins the end of SctkState::seats.
new_seat(virtual_keyboard) ==
    /\ kbd.result = "ok"
    /\ Len(kbd.seats) < MaxSeats
    /\ kbd' = [kbd EXCEPT !.seats = Append(@, SeatNew(virtual_keyboard)),
                          !.call = [op |-> "new_seat"]]
    /\ UNCHANGED notVirtualKeyboard

NextVirtualKeyboard ==
    \/ \E virtual_keyboard \in BOOLEAN : new_seat(virtual_keyboard)
    \/ \E key \in VirtualKeys : vk_press_key(key)
    \/ \E key \in VirtualKeys : vk_release_key(key)

----------------------------------------------------------------------------
(* Specifications.                                                         *)

Init ==
    /\ InitCompositor /\ InitField /\ InitCheckbox /\ InitLayout /\ InitTree
    /\ InitSiblings /\ InitRow /\ InitApp /\ InitInputMethod /\ InitVirtualKeyboard

SpecCompositor == Init /\ [][NextCompositor]_vars
SpecField == Init /\ [][NextField]_vars
SpecCheckbox == Init /\ [][NextCheckbox]_vars
SpecLayout == Init /\ [][NextLayout]_vars
SpecTree == Init /\ [][NextTree]_vars
SpecSiblings == Init /\ [][NextSiblings]_vars
SpecRow == Init /\ [][NextRow]_vars
SpecApp == Init /\ [][NextApp]_vars
SpecVirtualKeyboard == Init /\ [][NextVirtualKeyboard]_vars
SpecInputMethod == Init /\ [][NextInputMethod]_vars

\* The compositor in a behaviour that tracks the screen.
InitDamage ==
    /\ surface = Unwrap(create_surface(2, 2))
    /\ frame = [FrameNew EXCEPT !.tracked = TRUE]
    /\ InitField /\ InitCheckbox /\ InitLayout /\ InitTree
    /\ InitSiblings /\ InitRow /\ InitApp /\ InitInputMethod /\ InitVirtualKeyboard
SpecDamage == InitDamage /\ [][NextCompositor]_vars
SpecOverlay == Init /\ [][NextOverlay]_vars
SpecRects == Init /\ [][NextRects]_vars
SpecSizes == Init /\ [][NextSizes]_vars
SpecScreenshot == Init /\ [][NextScreenshot]_vars

\* SelectionField in a behaviour that keeps track of the presses and
\* releases dispatched to it.
InitPresses ==
    /\ state = StateNew
    /\ dispatch = [self |-> [on_press |-> FALSE, on_select |-> FALSE], event |-> NoEvent,
                   over |-> FALSE, child |-> Ignored, before |-> StateNew,
                   status |-> Ignored, shell |-> <<>>]
    /\ armed = FALSE
    /\ left = "no"
    /\ recent = "none"
    /\ InitCompositor /\ InitCheckbox /\ InitLayout /\ InitTree
    /\ InitSiblings /\ InitRow /\ InitApp /\ InitInputMethod /\ InitVirtualKeyboard
SpecPresses == InitPresses /\ [][NextField]_vars

----------------------------------------------------------------------------
(* Claims about the compositor, checked under SpecCompositor.              *)

\* A present call that returned (it did not panic).
Presented == frame.op = "present" /\ frame.result # "panic"

\* The whole viewport as one rectangle of its logical size.
FullViewport == Some(<<WithSize(LogicalSize(Unwrap(frame.viewport)))>>)

\* C2: a present call whose primitive list and background colour are those
\* the surface has cached computes empty damage and returns Ok(()) without
\* calling backend.draw, resizing the window surface or calling
\* present_with_damage.
C2_UnchangedFrameSkipped ==
    (Presented /\ frame.same_primitives /\ frame.same_background)
        => /\ frame.damage = Some(<<>>)
           /\ frame.result = "Ok"
           /\ ~frame.drew /\ ~frame.resized /\ ~frame.offered

C2_Witness ==
    /\ Presented /\ frame.same_primitives /\ frame.same_background
    /\ frame.primitives # Some(<<>>)
    /\ frame.after.op = "present"
    /\ frame.result = "Ok" /\ ~frame.drew

\* C3: whenever the background colour passed to present differs from the
\* cached one, the damage is exactly the full viewport, one rectangle of the
\* viewport's logical size, however the primitive lists compare.
C3_BackgroundChangeRepaintsAll ==
    (Presented /\ ~frame.same_background) => frame.damage = FullViewport

C3_Witness ==
    /\ Presented /\ ~frame.same_background /\ frame.same_primitives
    /\ frame.damage = FullViewport

\* C4: the first present after create_surface or after configure_surface
\* computes damage equal to the full viewport, whatever the primitive list and
\* the background colour.
C4_FirstFrameRepaintsAll ==
    (Presented /\ frame.after.op \in {"create_surface", "configure_surface"})
        => frame.damage = FullViewport

C4_Witness ==
    /\ Presented /\ frame.after.op = "configure_surface"
    /\ frame.same_background /\ frame.primitives = Some(<<>>)
    /\ frame.damage = FullViewport

\* C7: after a present call that failed with a surface error, the next present
\* call with the same primitives and background colour computes non-empty
\* damage and attempts presentation again.
C7_FailedFrameRetried ==
    (/\ Presented /\ frame.repeats
     /\ frame.after.op = "present"
     /\ frame.after.result \in {"InvalidDimensions", "Resize", "Present"})
        => /\ frame.damage # Some(<<>>)
           /\ frame.drew

\* C8: present never returns Ok(()) for a frame with non-empty damage that
\* was not handed to present_with_damage.
C8_BackendFailureSurfaced ==
    (/\ Presented
     /\ frame.damage # Some(<<>>)
     /\ ~frame.offered)
        => frame.result # "Ok"

\* C9: present with a viewport whose physical width or height is zero returns
\* Err(InvalidDimensions), without a panic and without presenting anything.
C9_ZeroViewportRecoverable ==
    (/\ frame.op = "present"
     /\ (Unwrap(frame.viewport).physical[1] = 0 \/ Unwrap(frame.viewport).physical[2] = 0))
        => /\ frame.result = "InvalidDimensions"
           /\ ~frame.offered

\* Every point of `bounds` is in a rectangle of `damage`.
Covers(damage, bounds) ==
    \A x \in bounds.x..(bounds.x + bounds.width - 1) :
        \A y \in bounds.y..(bounds.y + bounds.height - 1) :
            \E i \in 1..Len(damage) : Contains(damage[i], <<x, y>>)

\* C20: when a frame that present_with_damage takes differs from the last one
\* it took in the bounds of exactly one primitive, the background colour
\* being the same, the damage present computed covers the old and the new
\* bounds of that primitive.
C20_MoveDamaged ==
    (frame.op = "present" /\ frame.offered /\ frame.result = "Ok")
        => \A move \in frame.moved :
              /\ Covers(Unwrap(frame.damage), move[1])
              /\ Covers(Unwrap(frame.damage), move[2])

\* The cached primitives and background colour are those of the last call.
CacheIsCurrent ==
    /\ surface.primitives = frame.primitives
    /\ surface.background_color = frame.background_color

\* C27: when present computes non-empty damage and returns, with Ok or with
\* an error, the surface caches the primitives and the background colour it
\* was called with; when it computes empty damage the cached values stay as
\* they were; and a present call with the arguments of the present call
\* before it computes empty damage.
C27_CacheUpdateRule ==
    /\ []((Presented /\ frame.damage # Some(<<>>)) => CacheIsCurrent)
    /\ []((Presented /\ frame.repeats /\ frame.after.op = "present")
            => frame.damage = Some(<<>>))
    /\ [][(frame'.op = "present" /\ frame'.damage = Some(<<>>))
            => UNCHANGED <<surface.primitives, surface.background_color>>]_vars

C27_Witness ==
    /\ Presented /\ frame.repeats
    /\ frame.after = [op |-> "present", result |-> "Present"]
    /\ frame.primitives # Some(<<>>)
    /\ frame.damage = Some(<<>>)
    /\ CacheIsCurrent

\* C28: the damage present computes is that of the cached primitives, the
\* cached background colour, the primitives, the background colour and the
\* viewport it is called with, whatever the overlay lines; a present call
\* whose overlay differs from that of the present call before it, with the
\* cached primitives and background colour, computes empty damage and neither
\* draws nor presents.
C28_OverlayIsNoDamage ==
    /\ []((Presented /\ frame.overlay_changed
            /\ frame.same_primitives /\ frame.same_background)
            => /\ frame.damage = Some(<<>>)
               /\ ~frame.drew /\ ~frame.offered)
    /\ [][(frame'.op = "present" /\ frame'.damage # None)
            => frame'.damage = Some(ComputeDamage(surface, Unwrap(frame'.primitives),
                                                  Unwrap(frame'.viewport),
                                                  frame'.background_color))]_vars

C28_Witness ==
    /\ Presented /\ frame.overlay_changed
    /\ frame.overlay = <<"fps">>
    /\ frame.same_primitives /\ frame.same_background
    /\ frame.primitives # Some(<<>>)
    /\ ~frame.drew

\* C29: the list of rectangles present_with_damage is given has no rectangle
\* of width 0 or of height 0, and whenever present_with_damage is called the
\* whole buffer was copied to the window's buffer before, whatever the list.
C29_NoEmptyRectPresented ==
    (frame.op = "present" /\ frame.offered)
        => /\ \A i \in 1..Len(Unwrap(frame.rects)) :
                 Unwrap(frame.rects)[i].width > 0 /\ Unwrap(frame.rects)[i].height > 0
           /\ frame.copied

\* A frame whose only damage is a region without width was presented.
C29_Witness ==
    /\ frame.op = "present" /\ frame.offered /\ frame.copied
    /\ frame.result = "Ok"
    /\ \E i \in 1..Len(Unwrap(frame.damage)) : Unwrap(frame.damage)[i].width = 0
    /\ frame.rects = Some(<<>>)

\* C30: after configure_surface(width, height) has returned, the buffer has
\* exactly width x height pixels: its length divided by the width is the
\* height, without a remainder.
C30_BufferHoldsEveryPixel ==
    (frame.op = "configure_surface" /\ frame.result = "Ok")
        => /\ surface.buffer \div surface.clip_mask[1] = surface.clip_mask[2]
           /\ surface.buffer % surface.clip_mask[1] = 0

\* The last call was a screenshot that returned.
Shot == frame.op = "screenshot" /\ frame.result = "Ok"

\* C31: screenshot leaves surface.primitives, surface.background_color and
\* surface.buffer as they were, so that the present call after it computes
\* the damage it would have computed in its place; and it draws with one
\* damage rectangle, of the physical size of the viewport.
C31_ScreenshotKeepsCache ==
    /\ [](frame.op = "screenshot"
            => /\ surface.primitives = Unwrap(frame.before).primitives
               /\ surface.background_color = Unwrap(frame.before).background_color
               /\ surface.buffer = Unwrap(frame.before).buffer)
    /\ [](Shot => /\ frame.drew
                  /\ frame.damage = Some(<<WithSize(Unwrap(frame.viewport).physical)>>))
    /\ [][(frame.op = "screenshot" /\ frame'.op = "present" /\ frame'.damage # None)
            => frame'.damage = Some(ComputeDamage(Unwrap(frame.before),
                                                  Unwrap(frame'.primitives),
                                                  Unwrap(frame'.viewport),
                                                  frame'.background_color))]_vars

\* A screenshot of another frame than the cached one, taken after a present.
C31_Witness ==
    /\ Shot /\ frame.after.op = "present"
    /\ surface.primitives = Some(<<>>)
    /\ frame.primitives = Some(<<Quad>>)
    /\ frame.background_color # surface.background_color

\* The channels of a pixel 0xAARRGGBB: bits 16-23, 8-15, 0-7 and 24-31.
Rgba(pixel) == <<pixel.hi % 256, pixel.lo \div 256, pixel.lo % 256, pixel.hi \div 256>>

\* C32: screenshot returns 4 x width x height bytes, and the four bytes at the
\* place of each pixel of the offscreen buffer are its red, green, blue and
\* alpha channels, in this order, the pixels in the order of the buffer.
C32_ScreenshotIsRgba ==
    Shot => LET pixels == Unwrap(frame.offscreen_buffer)
                bytes == Unwrap(frame.bytes)
                size == Unwrap(frame.viewport).physical
            IN  /\ Len(pixels) = size[1] * size[2]
                /\ Len(bytes) = 4 * size[1] * size[2]
                /\ \A i \in 1..Len(pixels) :
                      SubSeq(bytes, 4 * i - 3, 4 * i) = Rgba(pixels[i])

\* A screenshot of 4 x 2 pixels that starts with an opaque pixel.
C32_Witness ==
    /\ Shot
    /\ Unwrap(frame.viewport).physical = <<4, 2>>
    /\ Unwrap(frame.offscreen_buffer)[1] = Pixel(255, 1, 2, 3)
    /\ SubSeq(Unwrap(frame.bytes), 1, 8) = <<1, 2, 3, 255, 0, 0, 0, 0>>
    /\ Len(Unwrap(frame.bytes)) = 32

----------------------------------------------------------------------------
(* Claims about SelectionField, checked under SpecField.                   *)

\* How many times `message` is in `shell`.
Published(shell, message) == Cardinality({i \in 1..Len(shell) : shell[i] = message})

\* The last call was a release that the child ignored.
ReleaseSeen == dispatch.event \in ReleaseEvents /\ dispatch.child = Ignored

\* C1: with on_press set and a child that ignores the events, a press over
\* the bounds followed (after cursor moves, if any) by a release publishes
\* exactly one on_press message when the cursor is over the bounds at the
\* release, and none when it is outside them.
C1_PressThenRelease ==
    (armed /\ ReleaseSeen /\ dispatch.self.on_press)
        => Published(dispatch.shell, "on_press") = (IF dispatch.over THEN 1 ELSE 0)

C1_Witness ==
    /\ armed /\ ReleaseSeen /\ dispatch.self.on_press /\ dispatch.over
    /\ dispatch.shell = <<"on_press">>

\* C5: when the content child returns Captured, SelectionField returns
\* Captured, leaves its State as it was and publishes neither on_press nor
\* on_select.
C5_ChildCaptureShortCircuits ==
    dispatch.child = Captured
        => /\ dispatch.status = Captured
           /\ state = dispatch.before
           /\ Published(dispatch.shell, "on_press") = 0
           /\ Published(dispatch.shell, "on_select") = 0

C5_Witness ==
    /\ dispatch.child = Captured
    /\ dispatch.event \in ReleaseEvents /\ dispatch.over /\ dispatch.self.on_press
    /\ dispatch.before.is_pressed
    /\ state.is_pressed

C12_NoOnPressIgnoresPresses ==
    (/\ ~dispatch.self.on_press /\ dispatch.child = Ignored
     /\ dispatch.event \in PressEvents \cup ReleaseEvents)
        => /\ dispatch.status = Ignored
           /\ state.is_pressed = dispatch.before.is_pressed
           /\ Published(dispatch.shell, "on_press") = 0

C12_Witness ==
    /\ ~dispatch.self.on_press /\ dispatch.child = Ignored
    /\ dispatch.event \in PressEvents /\ dispatch.over
    /\ dispatch.status = Ignored /\ ~state.is_pressed

\* C33: when the child ignored the event, a CursorMoved with the cursor in the
\* bounds sets is_hovered, returns Captured and publishes on_select once if it
\* is set and nothing if it is not; a CursorMoved with the cursor outside the
\* bounds returns Ignored, publishes nothing and leaves the State as it was.
C33_MoveSelects ==
    (dispatch.event = "CursorMoved" /\ dispatch.child = Ignored)
        => IF dispatch.over
           THEN /\ state = [dispatch.before EXCEPT !.is_hovered = TRUE]
                /\ dispatch.status = Captured
                /\ dispatch.shell = IF dispatch.self.on_select THEN <<"on_select">> ELSE <<>>
           ELSE /\ state = dispatch.before
                /\ dispatch.status = Ignored
                /\ dispatch.shell = <<>>

C33_Witness ==
    /\ dispatch.event = "CursorMoved" /\ dispatch.child = Ignored /\ dispatch.over
    /\ dispatch.self.on_select /\ ~dispatch.before.is_hovered
    /\ state.is_hovered
    /\ dispatch.shell = <<"on_select">>

\* The pointer events of C13: a move, a press, a release.
PointerEvents == {"CursorMoved"} \cup PressEvents \cup ReleaseEvents

\* Checkbox::on_event returns Ignored and publishes nothing for every pointer
\* event that arrives with the cursor outside the bounds.
CheckboxOutsideIgnored ==
    \A self \in Checkboxes, event \in PointerEvents, cursor \in Cursors :
        ~IsOver(cursor, LayoutBounds)
            => LET r == CheckboxOnEvent(self, TextStateNew, event, cursor)
               IN  r.status = Ignored /\ r.shell = <<>>

\* The last call was a pointer event with the cursor outside the bounds of
\* the field, which the child ignored.
OutsideSeen ==
    dispatch.event \in PointerEvents /\ ~dispatch.over /\ dispatch.child = Ignored

\* The last call was a release that found on_press set and is_pressed true.
EndsPress ==
    dispatch.event \in ReleaseEvents /\ dispatch.self.on_press /\ dispatch.before.is_pressed

\* C13 as stated: a pointer event with the cursor outside the bounds of the
\* SelectionField or the Checkbox and of their children returns Ignored and
\* publishes no message, whatever the State was.
C13_OutsideIgnored ==
    /\ OutsideSeen => dispatch.status = Ignored /\ dispatch.shell = <<>>
    /\ CheckboxOutsideIgnored

\* C13 amended: the same, except that a release that ends a press the field
\* holds returns Captured; it too publishes no message.
C13_OutsideIgnoredUnlessPressed ==
    /\ OutsideSeen
           => /\ dispatch.status = (IF EndsPress THEN Captured ELSE Ignored)
              /\ dispatch.shell = <<>>
    /\ CheckboxOutsideIgnored

C13_Witness ==
    /\ OutsideSeen /\ EndsPress
    /\ dispatch.status = Captured /\ dispatch.shell = <<>>
    /\ ~state.is_pressed

\* The events neither widget recognises: a keyboard event, a window event, a
\* platform-specific event, a press of another mouse button.
Unrecognised == {"RightPressed", "KeyPressed", "WindowResized", "PlatformSpecific"}

\* Checkbox::on_event returns Ignored for every unrecognised event, publishes
\* nothing and leaves the element and its tree state as they were.
CheckboxPassesThrough ==
    \A self \in Checkboxes, event \in Unrecognised, cursor \in Cursors :
        CheckboxOnEvent(self, TextStateNew, event, cursor)
            = [self |-> self, tree |-> TextStateNew, status |-> Ignored, shell |-> <<>>]

\* C14: an unrecognised event that the child ignored passes through
\* SelectionField::on_event, and any passes through Checkbox::on_event, with
\* status Ignored, no message and no change of state.
C14_UnrecognisedPassThrough ==
    /\ (dispatch.event \in Unrecognised /\ dispatch.child = Ignored)
           => /\ dispatch.status = Ignored
              /\ dispatch.shell = <<>>
              /\ state = dispatch.before
    /\ CheckboxPassesThrough

C14_Witness ==
    /\ dispatch.event = "RightPressed" /\ dispatch.child = Ignored
    /\ dispatch.over /\ dispatch.self.on_press
    /\ state.is_pressed /\ state.is_hovered
    /\ dispatch.status = Ignored

\* C26, checked under SpecPresses: whatever the events and the rebuilds, a
\* release publishes on_press only if the last press or release dispatched
\* to the field before it was a press with the cursor over the bounds, and
\* no CursorLeft or FingerLost came after that press.
C26_PublishOnlyAfterPress ==
    (dispatch.event \in ReleaseEvents /\ Published(dispatch.shell, "on_press") > 0)
        => recent = "press_over"

----------------------------------------------------------------------------
(* Claims about Checkbox, checked under SpecCheckbox.                      *)

\* C10: a Checkbox without on_toggle returns Ignored and publishes nothing,
\* for every event and every cursor position.
C10_DisabledCheckboxIgnores ==
    (checkbox.event # NoEvent /\ ~checkbox.self.on_toggle)
        => checkbox.status = Ignored /\ checkbox.shell = <<>>

C10_Witness ==
    /\ checkbox.event \in PressEvents /\ IsOver(checkbox.cursor, LayoutBounds)
    /\ ~checkbox.self.on_toggle
    /\ checkbox.status = Ignored

\* C11: a press over the bounds of a Checkbox with on_toggle publishes
\* exactly one message, on_toggle(!is_checked), and returns Captured; the call
\* leaves is_checked and the tree state as they were, so the instance
\* publishes the value it published on any earlier press.
C11_PressPublishesNegation ==
    (/\ checkbox.event \in PressEvents /\ IsOver(checkbox.cursor, LayoutBounds)
     /\ checkbox.before.self.on_toggle)
        => /\ checkbox.status = Captured
           /\ checkbox.shell
                = <<[message |-> "on_toggle", value |-> ~checkbox.before.self.is_checked]>>
           /\ checkbox.self = checkbox.before.self
           /\ checkbox.tree = checkbox.before.tree
           /\ checkbox.earlier # None => checkbox.shell[1].value = Unwrap(checkbox.earlier)

C11_Witness ==
    /\ checkbox.event \in PressEvents /\ IsOver(checkbox.cursor, LayoutBounds)
    /\ checkbox.before.self.on_toggle
    /\ checkbox.earlier = Some(TRUE)
    /\ checkbox.shell = <<[message |-> "on_toggle", value |-> TRUE]>>

\* The point is within the bounds, their left and top edge included, their
\* right and bottom edge not.
WithinEdges(point) ==
    /\ LayoutBounds.x <= point[1] /\ point[1] < LayoutBounds.x + LayoutBounds.width
    /\ LayoutBounds.y <= point[2] /\ point[2] < LayoutBounds.y + LayoutBounds.height

\* The point is on the left or the top edge of the bounds, and within them.
OnNearEdge(point) ==
    WithinEdges(point) /\ (point[1] = LayoutBounds.x \/ point[2] = LayoutBounds.y)

\* The point is on the right or the bottom edge of the bounds.
OnFarEdge(point) ==
    \/ /\ point[1] = LayoutBounds.x + LayoutBounds.width
       /\ LayoutBounds.y <= point[2] /\ point[2] <= LayoutBounds.y + LayoutBounds.height
    \/ /\ point[2] = LayoutBounds.y + LayoutBounds.height
       /\ LayoutBounds.x <= point[1] /\ point[1] <= LayoutBounds.x + LayoutBounds.width

\* A SelectionField with on_press whose child ignores the press captures it
\* and sets is_pressed exactly when the cursor is within the edges.
FieldPressWithinEdges ==
    \A st \in [is_hovered : BOOLEAN, is_pressed : BOOLEAN], event \in PressEvents,
       point \in (0..GridMax) \X (0..GridMax) :
        LET r == OnEvent([on_press |-> TRUE, on_select |-> FALSE], st, event,
                         Available(point), Ignored)
        IN  /\ (r.status = Captured) = WithinEdges(point)
            /\ WithinEdges(point) => r.state.is_pressed
            /\ ~WithinEdges(point) => r.state = st

\* C21: hit-testing is inclusive-exclusive: a press is over the bounds of a
\* Checkbox or a SelectionField iff left <= x < right and top <= y < bottom,
\* so a press on the left or the top edge is handled and a press on the right
\* or the bottom edge is not.
C21_HitTestEdges ==
    /\ (/\ checkbox.event \in PressEvents /\ checkbox.cursor # Unavailable
        /\ checkbox.before.self.on_toggle)
           => /\ (checkbox.status = Captured) = WithinEdges(checkbox.cursor[1])
              /\ (checkbox.shell # <<>>) = WithinEdges(checkbox.cursor[1])
              /\ OnNearEdge(checkbox.cursor[1]) => checkbox.status = Captured
              /\ OnFarEdge(checkbox.cursor[1]) => checkbox.status = Ignored
    /\ FieldPressWithinEdges

C21_Witness ==
    /\ checkbox.event \in PressEvents /\ checkbox.before.self.on_toggle
    /\ checkbox.cursor # Unavailable
    /\ OnFarEdge(checkbox.cursor[1])
    /\ checkbox.cursor[1][1] = LayoutBounds.x + LayoutBounds.width
    /\ checkbox.cursor[1][2] = LayoutBounds.y
    /\ checkbox.status = Ignored /\ checkbox.shell = <<>>

----------------------------------------------------------------------------
(* Claims about SelectionField::layout, checked under SpecLayout.          *)

\* The node of the last layout call, its content child, the limits the call
\* was given and the padding it fitted.
LaidNode == Unwrap(lay.node)
LaidChild == LaidNode.children[1]
LaidLimits == Unwrap(lay.limits)
LaidPadding ==
    PaddingFit(lay.self.padding, Unwrap(lay.content),
               SelectionFieldLimits(lay.self, LaidLimits).max)

\* C19: for every limits, a zero and an unbounded max among them, and every
\* padding, the node SelectionField::layout returns has its content child at
\* (padding.left, padding.top) of the fitted padding, the child's bounds are
\* within the node's size, and the node's size does not exceed limits.max.
C19_LayoutContainment ==
    lay.phase = "laid"
        => /\ LaidChild.position = Point(LaidPadding.left, LaidPadding.top)
           /\ LaidChild.size = Unwrap(lay.content)
           /\ Add(LaidChild.size.width, LaidChild.position.x) <= LaidNode.size.width
           /\ Add(LaidChild.size.height, LaidChild.position.y) <= LaidNode.size.height
           /\ LaidNode.size.width <= LaidLimits.max.width
           /\ LaidNode.size.height <= LaidLimits.max.height

C19_Witness ==
    /\ lay.phase = "laid"
    /\ lay.self.padding = PaddingOf(1, 1)
    /\ LaidLimits.max = Size(Infinity, 0)
    /\ LaidChild.position = Point(1, 0)
    /\ LaidNode.size.height = 0

----------------------------------------------------------------------------
(* Claims about the Tree, checked under SpecTree.                          *)

\* Two elements with the same tags in the same order, to the leaves.
RECURSIVE SameTags(_, _)
SameTags(old, new) ==
    /\ WidgetTag(old) = WidgetTag(new)
    /\ Len(old.content) = Len(new.content)
    /\ \A i \in 1..Len(old.content) : SameTags(old.content[i], new.content[i])

\* C15: a diff against a view with the same tags in the same order, whatever
\* the on_press and is_checked values and the content, leaves the State of
\* every SelectionField and the state of every child as they were.
C15_DiffStability ==
    (ui.op = "diff" /\ SameTags(ui.old, ui.element)) => ui.tree = ui.before

C15_Witness ==
    /\ ui.op = "diff" /\ SameTags(ui.old, ui.element)
    /\ ui.element.kind = "SelectionField"
    /\ ui.old.on_press /\ ~ui.element.on_press
    /\ ui.old.content[1] = CheckboxElement(FALSE, FALSE)
    /\ ui.element.content[1] = CheckboxElement(TRUE, TRUE)
    /\ ui.tree.state.value = [is_hovered |-> TRUE, is_pressed |-> TRUE]
    /\ ui.tree.children[1].state.value = [paragraph |-> "label"]

\* A tree of new nodes for an element: every state blob is the default of
\* its widget, to the leaves.
RECURSIVE Fresh(_, _)
Fresh(e, tree) ==
    /\ tree.state
         = (IF e.kind = "SelectionField"
            THEN [type |-> "selection_field::State",
                  value |-> [is_hovered |-> FALSE, is_pressed |-> FALSE]]
            ELSE [type |-> "text::State<Paragraph>", value |-> [paragraph |-> "default"]])
    /\ Len(tree.children) = Len(e.content)
    /\ \A i \in 1..Len(e.content) : Fresh(e.content[i], tree.children[i])

\* Wherever the new view has a widget of another kind than the old one at
\* the same position, the tree under that position is fresh.
RECURSIVE ReplacedFresh(_, _, _)
ReplacedFresh(old, new, tree) ==
    IF old.kind # new.kind
    THEN Fresh(new, tree)
    ELSE \A i \in 1..Min(Len(old.content), Len(new.content)) :
            i <= Len(tree.children)
                /\ ReplacedFresh(old.content[i], new.content[i], tree.children[i])

\* C16: a diff that finds a widget of another kind at a position, a Checkbox
\* where a SelectionField is now or the reverse, discards the old state and
\* subtree: the slot holds the default state (is_hovered and is_pressed
\* false for a SelectionField) and new children.
C16_DiffReplacement ==
    ui.op = "diff" => ReplacedFresh(ui.old, ui.element, ui.tree)

C16_Witness ==
    /\ ui.op = "diff"
    /\ ui.old.kind = "Checkbox" /\ ui.element.kind = "SelectionField"
    /\ ui.before.state.value = [paragraph |-> "label"]
    /\ ui.tree.state.value = [is_hovered |-> FALSE, is_pressed |-> FALSE]
    /\ Len(ui.tree.children) = 1
    /\ ui.tree.children[1].state.value = [paragraph |-> "default"]

\* The tree node of every SelectionField of the view has exactly one child,
\* with the tag of the content.
RECURSIVE OneChild(_, _)
OneChild(e, tree) ==
    e.kind = "SelectionField"
        => /\ Len(tree.children) = 1
           /\ tree.children[1].tag = WidgetTag(e.content[1])
           /\ OneChild(e.content[1], tree.children[1])

\* The layout node of every SelectionField of the view has exactly one child.
RECURSIVE NodeOneChild(_, _)
NodeOneChild(e, node) ==
    e.kind = "SelectionField"
        => /\ Len(node.children) = 1
           /\ NodeOneChild(e.content[1], node.children[1])

\* C17: after Tree::new and after every diff the tree node of a
\* SelectionField has exactly one child, that of its content, and its layout
\* node has exactly one child; tree.children[0] and
\* layout.children().next().unwrap() never fail.
C17_OneChild ==
    /\ OneChild(ui.element, ui.tree)
    /\ ui.layout # None => NodeOneChild(ui.element, Unwrap(ui.layout))
    /\ ui.result \notin {"index", "unwrap"}

C17_Witness ==
    /\ ui.op = "draw" /\ ui.result = "ok"
    /\ ui.replaced
    /\ ui.element.kind = "SelectionField"
    /\ Len(ui.tree.children) = 1
    /\ Len(Unwrap(ui.layout).children) = 1

\* Every node of the tree has the tag of the element at its position and a
\* state blob of the type the tag names.
RECURSIVE WellTyped(_, _)
WellTyped(e, tree) ==
    /\ tree.tag = WidgetTag(e)
    /\ tree.state.type = tree.tag
    /\ Len(tree.children) = Len(e.content)
    /\ \A i \in 1..Len(e.content) : WellTyped(e.content[i], tree.children[i])

\* C18: state() returns a blob of the type tag() names, text::State for a
\* Checkbox and State for a SelectionField; after every diff each node holds
\* a blob of the type of the widget at its position, and no downcast fails.
C18_DowncastSafe ==
    /\ \A e \in Elements : WidgetState(e).type = WidgetTag(e)
    /\ \A e \in Elements :
          \A f \in Elements : e.kind # f.kind => WidgetTag(e) # WidgetTag(f)
    /\ WellTyped(ui.element, ui.tree)
    /\ ui.result # "downcast"

C18_Witness ==
    /\ ui.op = "layout" /\ ui.result = "ok"
    /\ ui.replaced
    /\ ui.element.kind = "Checkbox"
    /\ ui.tree.state = [type |-> "text::State<Paragraph>", value |-> [paragraph |-> "label"]]

----------------------------------------------------------------------------
(* Claims about overlapping siblings, checked under SpecSiblings.          *)

\* The last dispatch was a press at a point that both siblings cover and
\* that each of them would capture.
PressOverBoth ==
    /\ stack.op = "on_event"
    /\ stack.event \in PressEvents /\ IsOver(stack.cursor, LayoutBounds)
    /\ stack.children[1].on_toggle /\ stack.children[2].on_toggle

----------------------------------------------------------------------------
(* Claims about the layout of a row, checked under SpecRow.                *)

\* The widths of the last layout, and the width the children that do not
\* fill take together.
RowLaid == Unwrap(row.widths)
RowTaken ==
    SumOf([i \in 1..Len(row.children) |->
              IF row.children[i].kind = "Fill" THEN 0 ELSE RowLaid[i]])

\* C23: a row of widths [Fill(1), Fixed(50)] under a parent of width 200
\* gives its children the widths [150, 50], and [50, 50] under one of width
\* 100; in general the one child that fills gets what remains after the
\* others (and the spacing), and no child gets a negative width.
C23_FillGetsRemainder ==
    row.op = "layout"
        => /\ (row.children = <<Fill, Fixed(50)>> /\ row.spacing = 0 /\ row.width = Some(200))
                  => RowLaid = <<150, 50>>
           /\ (row.children = <<Fill, Fixed(50)>> /\ row.spacing = 0 /\ row.width = Some(100))
                  => RowLaid = <<50, 50>>
           /\ \A i \in 1..Len(row.children) :
                 /\ RowLaid[i] >= 0
                 /\ (/\ row.children[i].kind = "Fill"
                     /\ \A j \in 1..Len(row.children) : j # i => row.children[j].kind # "Fill")
                        => LET rest == Unwrap(row.width) - RowTaken
                                         - row.spacing * (Len(row.children) - 1)
                           IN  RowLaid[i] = (IF rest > 0 THEN rest ELSE 0)

C23_Witness ==
    /\ row.op = "layout"
    /\ row.children = <<Fill, Fixed(50)>> /\ row.spacing = 0
    /\ row.after = Some(200) /\ row.width = Some(100)
    /\ RowLaid = <<50, 50>>

----------------------------------------------------------------------------
(* Claims about the application of the Checkbox example, under SpecApp.    *)

\* The last event was a press over the checkbox.
AppPressed == app.event \in PressEvents /\ IsOver(app.cursor, LayoutBounds)

\* C24: with the view built from state.is_checked with on_toggle, update
\* storing the bool received and the view rebuilt after each message, every
\* press over the checkbox flips state.is_checked, so the second of two
\* presses restores the value the first one found; no other event changes it.
C24_PressesRoundTrip ==
    /\ AppPressed
          => /\ app.state.is_checked = ~app.before.is_checked
             /\ app.pressed_before # None
                   => app.state = Unwrap(app.pressed_before)
    /\ (app.event # NoEvent /\ ~AppPressed) => app.state = app.before

C24_Witness ==
    /\ AppPressed
    /\ app.pressed_before = Some([is_checked |-> TRUE])
    /\ app.pressed_from = Some([is_checked |-> FALSE])
    /\ app.state.is_checked
    /\ app.status = Captured

----------------------------------------------------------------------------
(* Claims about the input method, checked under SpecInputMethod.           *)

Pushed ==
    [Activate |-> SctkInputMethodEvent("Activate"),
     Deactivate |-> SctkInputMethodEvent("Deactivate"),
     press_key |-> [kind |-> "InputMethodKeyboardEvent", variant |-> "Press"],
     release_key |-> [kind |-> "InputMethodKeyboardEvent", variant |-> "Release"],
     update_modifiers |-> [kind |-> "InputMethodKeyboardEvent", variant |-> "Modifiers"],
     repeat |-> [kind |-> "InputMethodKeyboardEvent", variant |-> "Repeat"]]

\* C34: an Activate, Deactivate, key press, key release, modifiers update or
\* key repeat callback appends one event of its kind to the end of
\* sctk_events and leaves the events before it as they were; a
\* SurroundingText, TextChangeCause, ContentType or Done callback leaves
\* sctk_events unchanged; an Unavailable event panics.
C34_CallbacksOnlyAppend ==
    [][/\ im'.last \in DOMAIN Pushed
          => /\ Len(im'.sctk_events) = Len(im.sctk_events) + 1
             /\ SubSeq(im'.sctk_events, 1, Len(im.sctk_events)) = im.sctk_events
             /\ LET event == im'.sctk_events[Len(im'.sctk_events)]
                IN  /\ event.kind = Pushed[im'.last].kind
                    /\ event.variant = Pushed[im'.last].variant
             /\ im'.result = "ok"
       /\ im'.last \in {"SurroundingText", "TextChangeCause", "ContentType", "Done"}
          => /\ im'.sctk_events = im.sctk_events
             /\ im'.result = "ok"
       /\ im'.last = "Unavailable"
          => im'.result = "panic"]_vars

\* A key repeat arrived after an Activate and waits behind it.
C34_Witness ==
    /\ im.last = "repeat"
    /\ Len(im.sctk_events) = 2
    /\ im.sctk_events[1] = SctkInputMethodEvent("Activate")
    /\ im.sctk_events[2].variant = "Repeat"

----------------------------------------------------------------------------
(* Claims about the virtual keyboard, checked under SpecVirtualKeyboard.   *)

\* The request a call of press_key or release_key sends.
KeyRequest(call) ==
    [time |-> call.key.time, key |-> call.key.raw_code,
     state |-> IF call.op = "press_key" THEN Pressed ELSE Released]

\* C35: press_key and release_key panic when there is no seat; do nothing when
\* the first seat has no virtual keyboard; and otherwise send one key request
\* with the time and the raw_code of the event, Pressed for press_key and
\* Released for release_key, to the virtual keyboard of the first seat.  The
\* other seats are sent nothing.
C35_FirstSeatGetsKey ==
    [][kbd'.call.op \in {"press_key", "release_key"}
          => IF kbd.seats = <<>>
             THEN kbd'.result = "panic" /\ kbd'.seats = kbd.seats
             ELSE /\ kbd'.result = "ok"
                  /\ Len(kbd'.seats) = Len(kbd.seats)
                  /\ \A i \in 2..Len(kbd.seats) : kbd'.seats[i] = kbd.seats[i]
                  /\ kbd'.seats[1].virtual_keyboard = kbd.seats[1].virtual_keyboard
                  /\ kbd'.seats[1].requests
                       = IF kbd.seats[1].virtual_keyboard
                         THEN Append(kbd.seats[1].requests, KeyRequest(kbd'.call))
                         ELSE kbd.seats[1].requests]_vars

\* A release was sent to the first of two seats with a virtual keyboard, after
\* a press.
C35_Witness ==
    /\ kbd.call.op = "release_key" /\ kbd.result = "ok"
    /\ Len(kbd.seats) = 2
    /\ kbd.seats[2] = SeatNew(TRUE)
    /\ Len(kbd.seats[1].requests) = 2
    /\ kbd.seats[1].requests[1].state = Pressed
    /\ kbd.seats[1].requests[2] = [time |-> 2, key |-> 30, state |-> Released]

====
